---- MODULE Spec2Model ----
(***************************************************************************)
(* State-machine model of the AWX resource synchronisation scripts:        *)
(*   scripts/0_populate_awx_assets.py  (AWXPopulator, the Provisioner)     *)
(*   scripts/0_cleanup_awx_assets.py   (AWXCleaner, the Decommissioner)    *)
(* One action is one HTTP request of the script together with the local    *)
(* computation around it.  The remote REST service is the environment: it  *)
(* answers every request either successfully or with an error status.      *)
(* Scalar payload fields that reference nothing (scm_url, playbook, ...)   *)
(* are left out of the payloads; names, descriptions and every reference   *)
(* field are kept.                                                         *)
(***************************************************************************)
EXTENDS Integers, Sequences, FiniteSets, TLC

\* ------------------------------------------------------------------ bounds
\* error responses the remote may give in one behaviour
MaxFaults == 1
\* program invocations (Provisioner or Decommissioner runs) in one behaviour
MaxRuns == 2
\* seconds a slow status request of the waiter takes
MaxLatency == 6
\* objects on one page of a list response (the remote's page size)
PageSize == 2

\* ------------------------------------------------------- program constants
\* _wait_for_project_syncs(self, timeout: int = 120)
Timeout == 120
\* time.sleep(3)
PollInterval == 3

\* ------------------------------------------------------------ python dicts
\* A dict is modelled with its insertion order: a sequence of [k, v] items.
EmptyDict == << >>

DictHas(d, key) == \E n \in 1..Len(d) : d[n].k = key

\* d[key]; the caller guards with DictHas (a missing key is a KeyError)
DictAt(d, key) == d[CHOOSE n \in 1..Len(d) : d[n].k = key].v

\* d.get(key): None is modelled as 0 (remote ids start at 1)
DictGet(d, key) == IF DictHas(d, key) THEN DictAt(d, key) ELSE 0

\* d[key] = val: an existing key keeps its position
DictSet(d, key, val) ==
    IF DictHas(d, key)
    THEN [n \in 1..Len(d) |-> IF d[n].k = key THEN [k |-> key, v |-> val] ELSE d[n]]
    ELSE Append(d, [k |-> key, v |-> val])

DictValues(d) == {d[n].v : n \in 1..Len(d)}

\* rec.get(field, default) on a declared instance
Get(rec, field, default) == IF field \in DOMAIN rec THEN rec[field] ELSE default

\* f"{scope}/{name}"
CacheKey(scope, name) == scope \o "/" \o name

\* key.endswith(f"/{team_name}")
EndsWith(key, suffix) ==
    /\ Len(key) >= Len(suffix)
    /\ SubSeq(key, Len(key) - Len(suffix) + 1, Len(key)) = suffix

Range(s) == {s[n] : n \in 1..Len(s)}

\* --------------------------------------------------------- declared data
\* The module-level lists ORGANIZATIONS ... TEAM_ROLES are the Provisioner's
\* input; the model runs it on small declarations of the same shape.
\* one organization, an instance of every kind, and a three-node pipeline
\* N1 -success-> N2 -success-> N3 like the declared "Full Deploy Pipeline"
CfgBasic ==
    [ organizations |-> << [name |-> "Org-A", description |-> "declared"] >>,
      teams |-> << [name |-> "T1", organization |-> "Org-A"] >>,
      users |-> << [username |-> "u1", organization |-> "Org-A", teams |-> <<"T1">>] >>,
      credential_types |-> << [name |-> "API Token"] >>,
      credentials |-> << [name |-> "C1", organization |-> "Org-A",
                          credential_type |-> "API Token"] >>,
      projects |-> << [name |-> "P1", organization |-> "Org-A", credential |-> "C1"] >>,
      inventories |-> << [name |-> "I1", organization |-> "Org-A",
                          hosts |-> << [name |-> "h1"] >>,
                          groups |-> << [name |-> "g1", hosts |-> <<"h1">>] >>] >>,
      job_templates |-> << [name |-> "J1", project |-> "P1", inventory |-> "I1",
                            credentials |-> <<"C1">>],
                           [name |-> "J2", project |-> "P1", inventory |-> "I1",
                            credentials |-> << >>],
                           [name |-> "J3", project |-> "P1", inventory |-> "I1",
                            credentials |-> << >>] >>,
      workflow_job_templates |-> << [name |-> "W1", organization |-> "Org-A",
          nodes |-> << [identifier |-> "N1", job_template |-> "J1",
                        success_nodes |-> <<"N2">>, failure_nodes |-> << >>,
                        always_nodes |-> << >>],
                       [identifier |-> "N2", job_template |-> "J2",
                        success_nodes |-> <<"N3">>, failure_nodes |-> << >>,
                        always_nodes |-> << >>],
                       [identifier |-> "N3", job_template |-> "J3",
                        success_nodes |-> << >>, failure_nodes |-> << >>,
                        always_nodes |-> << >>] >>] >>,
      role_assignments |-> << [team |-> "T1", object_type |-> "job_templates",
                               object_name |-> "J1", role_field |-> "admin_role"] >> ]

\* two organizations with a team of the same name each, a built-in credential
\* type, two projects, two workflow nodes on one job template, and optional
\* references (team, credential, job template, edge target, role object,
\* role level) that name nothing declared
CfgScoped ==
    [ organizations |-> << [name |-> "Org-A", description |-> "declared"],
                           [name |-> "Org-B", description |-> "declared"] >>,
      teams |-> << [name |-> "T1", organization |-> "Org-A"],
                   [name |-> "T1", organization |-> "Org-B"] >>,
      users |-> << [username |-> "u1", organization |-> "Org-B",
                    teams |-> <<"T1", "T9">>] >>,
      credential_types |-> << >>,
      credentials |-> << [name |-> "C1", organization |-> "Org-A",
                          credential_type |-> "Machine"] >>,
      projects |-> << [name |-> "P1", organization |-> "Org-A", credential |-> "C1"],
                      [name |-> "P2", organization |-> "Org-B"] >>,
      inventories |-> << [name |-> "I1", organization |-> "Org-A",
                          hosts |-> << [name |-> "h1"] >>,
                          groups |-> << [name |-> "g1", hosts |-> <<"h1", "h9">>] >>] >>,
      job_templates |-> << [name |-> "J1", project |-> "P1", inventory |-> "I1",
                            credentials |-> <<"C1", "C9">>] >>,
      workflow_job_templates |-> << [name |-> "W1", organization |-> "Org-B",
          nodes |-> << [identifier |-> "N1", job_template |-> "J1",
                        success_nodes |-> <<"N2">>, failure_nodes |-> <<"N9">>,
                        always_nodes |-> <<"N2">>],
                       [identifier |-> "N2", job_template |-> "J1",
                        success_nodes |-> << >>, failure_nodes |-> << >>,
                        always_nodes |-> <<"N3">>],
                       [identifier |-> "N3", job_template |-> "J9",
                        success_nodes |-> <<"N1">>, failure_nodes |-> << >>,
                        always_nodes |-> << >>] >>],
                                  [name |-> "W2", organization |-> "Org-A",
          nodes |-> << [identifier |-> "A", job_template |-> "J1",
                        success_nodes |-> << >>, failure_nodes |-> << >>,
                        always_nodes |-> <<"A">>] >>] >>,
      role_assignments |-> << [team |-> "T1", object_type |-> "inventories",
                               object_name |-> "I1", role_field |-> "use_role"],
                              [team |-> "T1", object_type |-> "projects",
                               object_name |-> "P9", role_field |-> "use_role"],
                              [team |-> "T9", object_type |-> "projects",
                               object_name |-> "P1", role_field |-> "use_role"],
                              [team |-> "T1", object_type |-> "job_templates",
                               object_name |-> "J1", role_field |-> "use_role"],
                              [team |-> "T1", object_type |-> "job_templates",
                               object_name |-> "J1", role_field |-> "execute_role"] >> ]

\* a team that names an organization nobody declared, followed by a sound team
CfgDangling ==
    [ organizations |-> << [name |-> "Org-A", description |-> "declared"] >>,
      teams |-> << [name |-> "T0", organization |-> "Org-X"],
                   [name |-> "T1", organization |-> "Org-A"] >>,
      users |-> << [username |-> "u1", organization |-> "Org-A", teams |-> <<"T1">>] >>,
      credential_types |-> << >>,
      credentials |-> << >>,
      projects |-> << >>,
      inventories |-> << >>,
      job_templates |-> << >>,
      workflow_job_templates |-> << >>,
      role_assignments |-> << >> ]

\* one organization and one team in it, for two instances at work at a time
CfgRace ==
    [ organizations |-> << [name |-> "Org-A", description |-> "declared"] >>,
      teams |-> << [name |-> "T1", organization |-> "Org-A"] >>,
      users |-> << >>,
      credential_types |-> << >>,
      credentials |-> << >>,
      projects |-> << >>,
      inventories |-> << >>,
      job_templates |-> << >>,
      workflow_job_templates |-> << >>,
      role_assignments |-> << >> ]

\* ------------------------------------------------------------- the remote
\* the list endpoints the scripts talk to
Kinds == {"organizations", "teams", "users", "credential_types", "credentials",
          "projects", "inventories", "hosts", "groups", "job_templates",
          "workflow_job_templates", "workflow_nodes"}

\* status in ("pending", "waiting", "running", "new")
InProgress == {"pending", "waiting", "running", "new"}

\* what a project's status may be at the next request: a sync that is under way
\* may go on, succeed or fail; a finished one stays as it is
NextStatuses(s) == IF s \in InProgress THEN {s, "successful", "failed"} ELSE {s}

NoObjects == [kd \in Kinds |-> {}]

\* a fresh installation: nothing but the built-in credential type
TargetEmpty ==
    [ remote |-> [NoObjects EXCEPT !["credential_types"] = {[id |-> 1, name |-> "Machine"]}],
      nextId |-> [kd \in Kinds |-> IF kd = "credential_types" THEN 2 ELSE 1],
      assoc |-> {},
      proj_status |-> << >> ]

\* an installation somebody worked on by hand: resources with declared names and
\* other field values, a project whose sync is under way, a membership
TargetUsed ==
    [ remote |-> [NoObjects EXCEPT
          !["credential_types"] = {[id |-> 1, name |-> "Machine"]},
          !["organizations"] = {[id |-> 1, name |-> "Org-A", description |-> "manual"]},
          !["teams"] = {[id |-> 1, name |-> "T1", description |-> "manual",
                         organization |-> 1]},
          !["users"] = {[id |-> 1, username |-> "u1"]},
          !["projects"] = {[id |-> 1, name |-> "P1", description |-> "manual",
                            organization |-> 1]}],
      nextId |-> [kd \in Kinds |->
                    IF kd \in {"credential_types", "organizations", "teams",
                               "users", "projects"} THEN 2 ELSE 1],
      assoc |-> {<<"org_users", 1, 1>>},
      proj_status |-> <<"running">> ]

\* the runs the model looks at: declared data and the target it is run against
Scenarios == {<<CfgBasic, TargetEmpty>>, <<CfgBasic, TargetUsed>>,
              <<CfgScoped, TargetEmpty>>, <<CfgDangling, TargetEmpty>>}

\* the field a list endpoint filters on: ?username= for users, ?name= otherwise
NameOf(kind, obj) == IF kind = "users" THEN obj.username ELSE obj.name

\* GET <endpoint>?name=<name>: the results of the list. scope restricts a nested
\* endpoint (inventories/<id>/hosts/, inventories/<id>/groups/) to its parent.
Matches(rem, kind, name, scope) ==
    {o \in rem[kind] : /\ NameOf(kind, o) = name
                       /\ \A f \in DOMAIN scope : o[f] = scope[f]}

\* a set of objects in the order a list endpoint returns them: by id
RECURSIVE SortById(_)
SortById(S) ==
    IF S = {} THEN << >>
    ELSE LET first == CHOOSE o \in S : \A x \in S : o.id <= x.id
         IN <<first>> \o SortById(S \ {first})

\* data["results"] of the first response to a list request; the other objects
\* are on the pages its "next" link leads to
FirstPage(S) == LET all == SortById(S)
                IN SubSeq(all, 1, IF Len(all) < PageSize THEN Len(all) ELSE PageSize)

\* the object a successful POST <endpoint> creates
NewObject(ids, kind, payload, scope) == [id |-> ids[kind]] @@ payload @@ scope

NoScope == << >>

\* role levels every object type has in summary_fields.object_roles
ObjectRoles(obj_type) ==
    IF obj_type \in {"job_templates", "workflow_job_templates"}
    THEN {"admin_role", "execute_role", "read_role"}
    ELSE {"admin_role", "use_role", "read_role"}

\* ------------------------------------------------------------------ state
VARIABLES
    cfg,          \* the declared data of this behaviour
    remote,       \* kind -> the objects the remote holds
    nextId,       \* kind -> the id the remote gives its next new object
    assoc,        \* memberships, credential links, edges, grants: <<relation, a, b>>
    proj_status,  \* project id -> status of its sync
    now,          \* time.time(), in seconds since the waiter was entered
    errs,         \* the error responses given so far
    procs,        \* the Provisioner instances at work on the target
    pc,           \* instance -> where its main() stands
    cache,        \* instance -> the AWXPopulator name -> id dicts
    loc,          \* instance -> the local variables that live across requests
    exit_code,    \* instance -> what its last main() returned
    summary,      \* instance -> its last main() printed the summary
    attempted,    \* instance -> the declared instances its run came to
    last_req,     \* instance -> its last request and the answer
    wait_outcome, \* instance -> how its last _wait_for_project_syncs ended
    runs,         \* program invocations so far
    hist,         \* the finished invocations: program and exit code
    snap,         \* the remote at the start, and as each finished run left it
    cleaner,      \* the AWXCleaner: where its main() stands, its counters
    aap,          \* the AAPCleaner: where its main() stands, its counters
    col           \* the AAPAssetDownloader: where its main() stands, what it holds

vars == <<cfg, remote, nextId, assoc, proj_status, now, errs, procs, pc, cache, loc,
          exit_code, summary, attempted, last_req, wait_outcome, runs, hist, snap,
          cleaner, aap, col>>

Procs == {1, 2}

\* the calls of main(), in order
\* the creators with create_job_templates called before create_projects
ProvOrderJobTemplatesEarly ==
    <<"organizations", "teams", "users", "credential_types", "credentials",
      "inventories", "job_templates", "projects", "workflow_job_templates",
      "role_assignments">>

\* the calls of main() of the populate script, in order
ProvOrder == <<"organizations", "teams", "users", "credential_types", "credentials",
               "projects", "inventories", "job_templates", "workflow_job_templates",
               "role_assignments">>

\* ("success_nodes", "failure_nodes", "always_nodes")
EdgeTypes == <<"success_nodes", "failure_nodes", "always_nodes">>

Pos(step, i, ph, j, k, e) == [step |-> step, i |-> i, ph |-> ph, j |-> j, k |-> k, e |-> e]

IdlePos == Pos("idle", 0, "", 0, 0, 0)
ExitPos == Pos("exit", 0, "", 0, 0, 0)
WaitPos == Pos("wait", 0, "enter", 0, 0, 0)

\* AWXPopulator.__init__
NewCache == [org_ids |-> EmptyDict, cred_type_ids |-> EmptyDict, cred_ids |-> EmptyDict,
             project_ids |-> EmptyDict, inventory_ids |-> EmptyDict,
             host_ids |-> EmptyDict, group_ids |-> EmptyDict, team_ids |-> EmptyDict,
             user_ids |-> EmptyDict, jt_ids |-> EmptyDict, wfjt_ids |-> EmptyDict]

\* id: user_id, inv_id, jt_id, wfjt_id or obj_id of the instance at hand
NoLocals == [id |-> 0, group_id |-> 0, team_id |-> 0, role_id |-> 0,
             node_id_map |-> EmptyDict,
             deadline |-> 0, pending |-> {}, still_pending |-> {}, todo |-> {}]

NoReq == [op |-> "none", kind |-> "", status |-> 0, id |-> 0, exc |-> ""]

Req(op, kind, status, id, exc) ==
    [op |-> op, kind |-> kind, status |-> status, id |-> id, exc |-> exc]

\* ------------------------------------------- the request sites of the upserts
\* the endpoint kind the upsert at a position talks to
SiteKind(pos) ==
    IF pos.ph \in {"host_find", "host_create"} THEN "hosts"
    ELSE IF pos.ph \in {"group_find", "group_create"} THEN "groups"
    ELSE pos.step

\* the declared instance a position is at
SiteInst(c, pos) ==
    IF pos.ph \in {"host_find", "host_create"} THEN c.inventories[pos.i].hosts[pos.j]
    ELSE IF pos.ph \in {"group_find", "group_create", "group_host"}
         THEN c.inventories[pos.i].groups[pos.j]
    ELSE c[pos.step][pos.i]

SiteName(c, pos) ==
    IF pos.step = "users" THEN SiteInst(c, pos).username ELSE SiteInst(c, pos).name

\* inventories/{inv_id}/hosts/ and inventories/{inv_id}/groups/ are nested
SiteScope(pos, lc) ==
    IF SiteKind(pos) \in {"hosts", "groups"} THEN [inventory |-> lc.id] ELSE NoScope

\* the dict the id is cached in
SiteCache(pos) ==
    CASE SiteKind(pos) = "organizations" -> "org_ids"
      [] SiteKind(pos) = "teams" -> "team_ids"
      [] SiteKind(pos) = "users" -> "user_ids"
      [] SiteKind(pos) = "credential_types" -> "cred_type_ids"
      [] SiteKind(pos) = "credentials" -> "cred_ids"
      [] SiteKind(pos) = "projects" -> "project_ids"
      [] SiteKind(pos) = "inventories" -> "inventory_ids"
      [] SiteKind(pos) = "hosts" -> "host_ids"
      [] SiteKind(pos) = "groups" -> "group_ids"
      [] SiteKind(pos) = "job_templates" -> "jt_ids"
      [] SiteKind(pos) = "workflow_job_templates" -> "wfjt_ids"

\* the key the id is cached under
SiteCacheKey(c, pos) ==
    CASE SiteKind(pos) = "teams" ->
             CacheKey(SiteInst(c, pos).organization, SiteInst(c, pos).name)
      [] SiteKind(pos) \in {"hosts", "groups"} ->
             CacheKey(c.inventories[pos.i].name, SiteInst(c, pos).name)
      [] OTHER -> SiteName(c, pos)

\* self.org_ids[org_name] and the like raise KeyError while the payload is built
PayloadRaises(c, pos, ch) ==
    LET inst == SiteInst(c, pos) IN
    CASE SiteKind(pos) \in {"teams", "credentials", "inventories",
                            "workflow_job_templates"} ->
             ~DictHas(ch.org_ids, inst.organization)
      [] SiteKind(pos) = "projects" ->
             \/ ~DictHas(ch.org_ids, inst.organization)
             \/ /\ Get(inst, "credential", "") # ""
                /\ ~DictHas(ch.cred_ids, inst.credential)
      [] SiteKind(pos) = "job_templates" ->
             \/ ~DictHas(ch.project_ids, inst.project)
             \/ ~DictHas(ch.inventory_ids, inst.inventory)
      [] OTHER -> FALSE

\* the payload of the create request
Payload(c, pos, ch) ==
    LET inst == SiteInst(c, pos)
        named == [name |-> inst.name, description |-> Get(inst, "description", "")]
    IN
    CASE SiteKind(pos) \in {"organizations", "credential_types"} -> inst
      [] SiteKind(pos) \in {"teams", "inventories", "workflow_job_templates"} ->
             named @@ [organization |-> DictAt(ch.org_ids, inst.organization)]
      [] SiteKind(pos) = "users" -> [username |-> inst.username]
      [] SiteKind(pos) = "credentials" ->
             named @@ [organization |-> DictAt(ch.org_ids, inst.organization),
                       credential_type |-> DictAt(ch.cred_type_ids, inst.credential_type)]
      [] SiteKind(pos) = "projects" ->
             named @@ [organization |-> DictAt(ch.org_ids, inst.organization)]
                   @@ (IF Get(inst, "credential", "") # ""
                       THEN [credential |-> DictAt(ch.cred_ids, inst.credential)]
                       ELSE << >>)
      [] SiteKind(pos) = "hosts" -> [name |-> inst.name]
      [] SiteKind(pos) = "groups" -> named
      [] SiteKind(pos) = "job_templates" ->
             named @@ [project |-> DictAt(ch.project_ids, inst.project),
                       inventory |-> DictAt(ch.inventory_ids, inst.inventory)]

\* ------------------------------------------------------------ control flow
StepIndex(step) == CHOOSE n \in 1..Len(ProvOrder) : ProvOrder[n] = step

\* where the loop body of a step starts for an instance: a credential whose type
\* is not cached asks the remote for it first, a role assignment has no upsert
FirstPhase(c, ch, step, i) ==
    IF step = "credentials" /\ ~DictHas(ch.cred_type_ids, c.credentials[i].credential_type)
    THEN "resolve_type"
    ELSE IF step = "role_assignments" THEN "detail" ELSE "find"

StepPos(c, ch, step, i) == Pos(step, i, FirstPhase(c, ch, step, i), 0, 0, 0)

\* main() calling the k-th creator: a creator with nothing declared returns at
\* once, and create_projects ends in the waiter also with nothing declared
RECURSIVE EnterStep(_, _, _)
EnterStep(c, ch, n) ==
    IF n > Len(ProvOrder) THEN ExitPos
    ELSE IF Len(c[ProvOrder[n]]) > 0 THEN StepPos(c, ch, ProvOrder[n], 1)
    ELSE IF ProvOrder[n] = "projects" THEN WaitPos
    ELSE EnterStep(c, ch, n + 1)

AfterStep(c, ch, step) ==
    IF step = "projects" THEN WaitPos ELSE EnterStep(c, ch, StepIndex(step) + 1)

NextInstance(c, ch, pos) ==
    IF pos.i < Len(c[pos.step]) THEN StepPos(c, ch, pos.step, pos.i + 1)
    ELSE AfterStep(c, ch, pos.step)

\* create_inventories: the hosts of the inventory, then its groups
AfterGroups(c, ch, pos) == NextInstance(c, ch, pos)

AfterGroup(c, ch, pos) ==
    IF pos.j < Len(Get(c.inventories[pos.i], "groups", << >>))
    THEN Pos("inventories", pos.i, "group_find", pos.j + 1, 0, 0)
    ELSE AfterGroups(c, ch, pos)

AfterHosts(c, ch, pos) ==
    IF Len(Get(c.inventories[pos.i], "groups", << >>)) > 0
    THEN Pos("inventories", pos.i, "group_find", 1, 0, 0)
    ELSE AfterGroups(c, ch, pos)

AfterHost(c, ch, pos) ==
    IF pos.j < Len(Get(c.inventories[pos.i], "hosts", << >>))
    THEN Pos("inventories", pos.i, "host_find", pos.j + 1, 0, 0)
    ELSE AfterHosts(c, ch, pos)

\* _create_group: the hosts of the group
AfterGroupHost(c, ch, pos) ==
    IF pos.k < Len(Get(SiteInst(c, pos), "hosts", << >>))
    THEN Pos("inventories", pos.i, "group_host", pos.j, pos.k + 1, 0)
    ELSE AfterGroup(c, ch, pos)

\* create_users: the teams of the user
AfterTeamAssoc(c, ch, pos) ==
    IF pos.j < Len(Get(c.users[pos.i], "teams", << >>))
    THEN Pos("users", pos.i, "team_assoc", pos.j + 1, 0, 0)
    ELSE NextInstance(c, ch, pos)

\* create_job_templates: the credentials of the template
AfterJtCred(c, ch, pos) ==
    IF pos.j < Len(Get(c.job_templates[pos.i], "credentials", << >>))
    THEN Pos("job_templates", pos.i, "cred", pos.j + 1, 0, 0)
    ELSE NextInstance(c, ch, pos)

\* the edges of a node drawn from their target back to the node
NodeEdgesReversed(node) ==
    LET of(e) == Get(node, EdgeTypes[e], << >>)
        edges(e) == [n \in 1..Len(of(e)) |->
                        [source |-> of(e)[n], edge_type |-> EdgeTypes[e],
                         target |-> node.identifier]]
    IN edges(1) \o edges(2) \o edges(3)

\* the declared edges of a workflow in the order the second pass visits them
NodeEdges(node) ==
    LET of(e) == Get(node, EdgeTypes[e], << >>)
        edges(e) == [n \in 1..Len(of(e)) |->
                        [source |-> node.identifier, edge_type |-> EdgeTypes[e],
                         target |-> of(e)[n]]]
    IN edges(1) \o edges(2) \o edges(3)

RECURSIVE EdgesFrom(_, _)
EdgesFrom(nodes, n) ==
    IF n > Len(nodes) THEN << >> ELSE NodeEdges(nodes[n]) \o EdgesFrom(nodes, n + 1)

EdgeList(wf) == EdgesFrom(Get(wf, "nodes", << >>), 1)

\* create_workflow_job_templates: first pass over the nodes, then the edges
AfterEdge(c, ch, pos) ==
    IF pos.e < Len(EdgeList(c.workflow_job_templates[pos.i]))
    THEN Pos("workflow_job_templates", pos.i, "edge", 0, 0, pos.e + 1)
    ELSE NextInstance(c, ch, pos)

\* the edges taken up after the first node, before the other nodes
AfterNodeEdgesEarly(c, ch, pos) ==
    AfterEdge(c, ch, [pos EXCEPT !.e = 0])

AfterNode(c, ch, pos) ==
    IF pos.j < Len(Get(c.workflow_job_templates[pos.i], "nodes", << >>))
    THEN Pos("workflow_job_templates", pos.i, "node_list", pos.j + 1, 0, 0)
    ELSE AfterEdge(c, ch, [pos EXCEPT !.e = 0])

\* what follows the upsert of an instance once its id is known
AfterEnsure(c, ch, pos) ==
    CASE SiteKind(pos) = "users" -> Pos("users", pos.i, "org_assoc", 0, 0, 0)
      [] SiteKind(pos) = "inventories" ->
             AfterHost(c, ch, [pos EXCEPT !.j = 0])
      [] SiteKind(pos) = "hosts" -> AfterHost(c, ch, pos)
      [] SiteKind(pos) = "groups" ->
             AfterGroupHost(c, ch, [pos EXCEPT !.ph = "group_host", !.k = 0])
      [] SiteKind(pos) = "job_templates" -> AfterJtCred(c, ch, [pos EXCEPT !.j = 0])
      [] SiteKind(pos) = "workflow_job_templates" ->
             AfterNode(c, ch, [pos EXCEPT !.j = 0])
      [] OTHER -> NextInstance(c, ch, pos)

\* the locals the upsert of an instance sets from result["id"]
LocalsAfterEnsure(lc, pos, id) ==
    CASE SiteKind(pos) \in {"users", "inventories", "job_templates"} ->
             [lc EXCEPT !.id = id]
      [] SiteKind(pos) = "workflow_job_templates" ->
             [lc EXCEPT !.id = id, !.node_id_map = EmptyDict]
      [] SiteKind(pos) = "groups" -> [lc EXCEPT !.group_id = id]
      [] OTHER -> lc

\* ------------------------------------------------------- steps of a process
\* The state one step of an instance reads and writes, as a record; an action
\* computes the record after the step and Apply makes it the next state.
Cur(p) == [pos |-> pc[p], ch |-> cache[p], lc |-> loc[p], remote |-> remote,
           nextId |-> nextId, assoc |-> assoc, proj_status |-> proj_status,
           now |-> now, req |-> NoReq, wait |-> wait_outcome[p]]

\* an error response counts against the bound on them
IsError(req) == req.status >= 400 \/ req.exc = "ConnectionError"

\* main(): an exception that leaves a creator ends the run with "return 1";
\* the end of the try block prints the summary and ends it with "return 0"
ExitCode(req) == IF req.exc # "" THEN 1 ELSE 0

Apply(p, m) ==
    LET starting == pc[p].step \in {"idle", "exit"}
        ending == m.pos.step = "exit"
        before == IF starting THEN {} ELSE attempted[p]
    IN
    /\ pc' = [pc EXCEPT ![p] = m.pos]
    /\ cache' = [cache EXCEPT ![p] = m.ch]
    /\ loc' = [loc EXCEPT ![p] = IF ending THEN NoLocals ELSE m.lc]
    /\ remote' = m.remote
    /\ nextId' = m.nextId
    /\ assoc' = m.assoc
    /\ proj_status' = m.proj_status
    /\ now' = m.now
    /\ errs' = IF IsError(m.req) THEN Append(errs, m.req) ELSE errs
    /\ last_req' = [last_req EXCEPT ![p] = m.req]
    /\ wait_outcome' = [wait_outcome EXCEPT ![p] = m.wait]
    /\ attempted' = [attempted EXCEPT ![p] =
                        IF m.pos.step \in Range(ProvOrder)
                        THEN before \cup {<<m.pos.step, m.pos.i>>} ELSE before]
    /\ runs' = IF starting THEN runs + 1 ELSE runs
    /\ exit_code' = IF ending THEN [exit_code EXCEPT ![p] = ExitCode(m.req)] ELSE exit_code
    /\ summary' = IF ending THEN [summary EXCEPT ![p] = (ExitCode(m.req) = 0)]
                  ELSE IF starting THEN [summary EXCEPT ![p] = FALSE] ELSE summary
    /\ hist' = IF ending
               THEN Append(hist, [prog |-> "populate", rc |-> ExitCode(m.req)]) ELSE hist
    /\ snap' = IF ending THEN Append(snap, [remote |-> m.remote, assoc |-> m.assoc])
               ELSE snap
    /\ UNCHANGED <<cfg, procs, cleaner, aap, col>>

\* an exception nothing catches before main()
Raise(m, req) == [m EXCEPT !.pos = ExitPos, !.req = req]

\* the answers the remote may give: the good one, and an error while the bound
\* on error responses allows one
Fails(S) == IF Len(errs) < MaxFaults THEN S ELSE {}

PingStatuses == {200} \cup Fails({0, 401})
GetStatuses == {200} \cup Fails({500})
CreateStatuses == {201} \cup Fails({400, 500})
\* 409: "already a member", "already linked", "already assigned"
AssocStatuses(link) == {204} \cup Fails({500} \cup IF link \in assoc THEN {409} ELSE {})

\* --------------------------------------------------------------- the upsert
\* the id is known: self.<kind>_ids[key] = result["id"], and on to what follows
Cached(m, c, id, req) ==
    LET ch2 == [m.ch EXCEPT ![SiteCache(m.pos)] = DictSet(@, SiteCacheKey(c, m.pos), id)]
    IN [m EXCEPT !.ch = ch2,
                 !.lc = LocalsAfterEnsure(m.lc, m.pos, id),
                 !.pos = AfterEnsure(c, ch2, m.pos),
                 !.req = req]

\* an upsert that applies the candidate payload to the object it found
EnsureExistingUpdated(m, c, existing) ==
    [Cached(m, c, existing.id, Req("find", SiteKind(m.pos), 200, existing.id, ""))
        EXCEPT !.remote[SiteKind(m.pos)] =
                   (@ \ {existing}) \cup {Payload(c, m.pos, m.ch) @@ existing}]

\* _ensure, "if existing": the existing object is returned as it is
EnsureExisting(m, c, existing) ==
    Cached(m, c, existing.id, Req("find", SiteKind(m.pos), 200, existing.id, ""))

CreatePhase(ph) ==
    CASE ph = "find" -> "create"
      [] ph = "host_find" -> "host_create"
      [] ph = "group_find" -> "group_create"

\* an upsert that creates without looking at what the lookup returned
EnsureLookupBlind(m, c, st) ==
    IF st # 200 THEN Raise(m, Req("find", SiteKind(m.pos), st, 0, "HTTPError"))
    ELSE [m EXCEPT !.pos.ph = CreatePhase(m.pos.ph),
                   !.req = Req("find", SiteKind(m.pos), 200, 0, "")]

\* _find_by_name / _find_by_username inside _ensure / create_users
EnsureLookup(m, c, st) ==
    LET kind == SiteKind(m.pos)
        results == FirstPage(Matches(m.remote, kind, SiteName(c, m.pos),
                                     SiteScope(m.pos, m.lc)))
    IN IF st # 200 THEN Raise(m, Req("find", kind, st, 0, "HTTPError"))
       ELSE IF results # << >> THEN EnsureExisting(m, c, results[1])
       ELSE [m EXCEPT !.pos.ph = CreatePhase(m.pos.ph),
                      !.req = Req("find", kind, 200, 0, "")]

\* _ensure, "return self._post(endpoint, payload)"
EnsureCreated(m, c, st) ==
    LET kind == SiteKind(m.pos)
        obj == NewObject(m.nextId, kind, Payload(c, m.pos, m.ch), SiteScope(m.pos, m.lc))
        made == [m EXCEPT !.remote[kind] = @ \cup {obj},
                          !.nextId[kind] = @ + 1,
                          !.proj_status = IF kind = "projects"
                                          THEN Append(@, "pending") ELSE @]
    IN IF st # 201 THEN Raise(m, Req("create", kind, st, 0, "HTTPError"))
       ELSE Cached(made, c, obj.id, Req("create", kind, 201, obj.id, ""))

AtUpsert(p, phases) == /\ pc[p].step \in Range(ProvOrder)
                       /\ pc[p].ph \in phases

\* the loop body up to the answer to the lookup
EnsureFind(p) ==
    /\ AtUpsert(p, {"find", "host_find", "group_find"})
    /\ IF PayloadRaises(cfg, pc[p], cache[p])
       THEN Apply(p, Raise(Cur(p), Req("none", SiteKind(pc[p]), 0, 0, "KeyError")))
       ELSE \E st \in GetStatuses : Apply(p, EnsureLookup(Cur(p), cfg, st))

\* the create request of an instance the lookup did not find
EnsureCreate(p) ==
    /\ AtUpsert(p, {"create", "host_create", "group_create"})
    /\ \E st \in CreateStatuses : Apply(p, EnsureCreated(Cur(p), cfg, st))

\* _resolve_credential_type_id for a type that is not cached
ResolveTypeResult(m, c, st) ==
    LET type_name == c.credentials[m.pos.i].credential_type
        results == FirstPage(Matches(m.remote, "credential_types", type_name, NoScope))
    IN IF st # 200 THEN Raise(m, Req("find", "credential_types", st, 0, "HTTPError"))
       ELSE IF results # << >>
       THEN [m EXCEPT !.ch.cred_type_ids = DictSet(@, type_name, results[1].id),
                      !.pos.ph = "find",
                      !.req = Req("find", "credential_types", 200, results[1].id, "")]
       ELSE Raise(m, Req("find", "credential_types", 200, 0, "ValueError"))

ResolveType(p) ==
    /\ AtUpsert(p, {"resolve_type"})
    /\ IF ~DictHas(cache[p].org_ids, cfg.credentials[pc[p].i].organization)
       THEN Apply(p, Raise(Cur(p), Req("none", "credentials", 0, 0, "KeyError")))
       ELSE \E st \in GetStatuses : Apply(p, ResolveTypeResult(Cur(p), cfg, st))

\* a start that goes on to the creators whatever the connectivity check says
StartedPingIgnored(m, c, st) ==
    [m EXCEPT !.pos = EnterStep(c, m.ch, 1),
              !.req = Req("ping", "ping", st, 0,
                          IF st = 200 THEN "" ELSE "HTTPError")]

\* main() up to the first creator: a new AWXPopulator and the connectivity check
Started(m, c, st) ==
    IF st = 200 THEN [m EXCEPT !.pos = EnterStep(c, m.ch, 1),
                               !.req = Req("ping", "ping", 200, 0, "")]
    ELSE Raise(m, Req("ping", "ping", st, 0,
                      IF st = 0 THEN "ConnectionError" ELSE "HTTPError"))

ProvStart(p) ==
    /\ pc[p].step \in {"idle", "exit"}
    /\ cleaner.pos.step \in {"idle", "exit"}
    /\ runs < MaxRuns
    /\ \E st \in PingStatuses :
          Apply(p, Started([Cur(p) EXCEPT !.ch = NewCache, !.lc = NoLocals,
                                          !.wait = "none"], cfg, st))

\* ------------------------------------------------------ association requests
\* _post_no_body to an association endpoint: 204 records the link
Associated(m, link, st) ==
    [m EXCEPT !.assoc = IF st = 204 THEN @ \cup {link} ELSE @,
              !.req = Req("assoc", link[1], st, 0, IF st = 204 THEN "" ELSE "HTTPError")]

\* try: _post_no_body(...) except requests.exceptions.HTTPError: pass
AssociateQuietly(m, link, st, next) ==
    [Associated(m, link, st) EXCEPT !.pos = next, !.req.exc = ""]

\* _post_no_body(...) with no try around it
AssociateOrRaise(m, link, st, next) ==
    IF st = 204 THEN [Associated(m, link, st) EXCEPT !.pos = next]
    ELSE Raise(m, Associated(m, link, st).req)

\* no request: the optional reference names nothing cached
Skip(m, next) == [m EXCEPT !.pos = next]

\* create_users: the user joins the organization
UserOrgAssoc(p) ==
    LET m == Cur(p)
        user == cfg.users[m.pos.i]
        link == <<"org_users", DictAt(m.ch.org_ids, user.organization), m.lc.id>>
        next == AfterTeamAssoc(cfg, m.ch, [m.pos EXCEPT !.j = 0])
    IN /\ AtUpsert(p, {"org_assoc"})
       /\ IF ~DictHas(m.ch.org_ids, user.organization)
          THEN Apply(p, Raise(m, Req("none", "org_users", 0, 0, "KeyError")))
          ELSE \E st \in AssocStatuses(link) : Apply(p, AssociateQuietly(m, link, st, next))

\* create_users: the user joins each of its teams that is cached
UserTeamAssoc(p) ==
    LET m == Cur(p)
        user == cfg.users[m.pos.i]
        team_id == DictGet(m.ch.team_ids, CacheKey(user.organization, user.teams[m.pos.j]))
        link == <<"team_users", team_id, m.lc.id>>
        next == AfterTeamAssoc(cfg, m.ch, m.pos)
    IN /\ AtUpsert(p, {"team_assoc"})
       /\ IF team_id # 0
          THEN \E st \in AssocStatuses(link) : Apply(p, AssociateQuietly(m, link, st, next))
          ELSE Apply(p, Skip(m, next))

\* _create_group: each host of the group that is cached joins the group
GroupHostAssoc(p) ==
    LET m == Cur(p)
        group == SiteInst(cfg, m.pos)
        host_id == DictGet(m.ch.host_ids,
                           CacheKey(cfg.inventories[m.pos.i].name, group.hosts[m.pos.k]))
        link == <<"group_hosts", m.lc.group_id, host_id>>
        next == AfterGroupHost(cfg, m.ch, m.pos)
    IN /\ AtUpsert(p, {"group_host"})
       /\ IF host_id # 0
          THEN \E st \in AssocStatuses(link) : Apply(p, AssociateOrRaise(m, link, st, next))
          ELSE Apply(p, Skip(m, next))

\* create_job_templates: each credential of the template that is cached is linked
JtCredAssoc(p) ==
    LET m == Cur(p)
        cred_id == DictGet(m.ch.cred_ids, cfg.job_templates[m.pos.i].credentials[m.pos.j])
        link == <<"jt_credentials", m.lc.id, cred_id>>
        next == AfterJtCred(cfg, m.ch, m.pos)
    IN /\ AtUpsert(p, {"cred"})
       /\ IF cred_id # 0
          THEN \E st \in AssocStatuses(link) : Apply(p, AssociateQuietly(m, link, st, next))
          ELSE Apply(p, Skip(m, next))

\* ------------------------------------------------------------ workflow nodes
\* first pass: the existing nodes of the workflow are listed and the first one
\* that runs the node's job template is taken for the node
NodeListed(m, c, st) ==
    LET node == c.workflow_job_templates[m.pos.i].nodes[m.pos.j]
        jt_id == DictGet(m.ch.jt_ids, node.job_template)
        results == FirstPage({n \in m.remote["workflow_nodes"] :
                                 n.workflow_job_template = m.lc.id})
        hits == {n \in 1..Len(results) : results[n].unified_job_template = jt_id}
        existing_node == results[CHOOSE n \in hits : \A x \in hits : n <= x]
    IN IF st # 200 THEN Raise(m, Req("list", "workflow_nodes", st, 0, "HTTPError"))
       ELSE IF hits # {}
       THEN [m EXCEPT !.lc.node_id_map = DictSet(@, node.identifier, existing_node.id),
                      !.pos = AfterNode(c, m.ch, m.pos),
                      !.req = Req("list", "workflow_nodes", 200, existing_node.id, "")]
       ELSE [m EXCEPT !.pos.ph = "node_create",
                      !.req = Req("list", "workflow_nodes", 200, 0, "")]

NodeList(p) ==
    /\ AtUpsert(p, {"node_list"})
    /\ IF DictGet(cache[p].jt_ids,
                  cfg.workflow_job_templates[pc[p].i].nodes[pc[p].j].job_template) = 0
       THEN Apply(p, Skip(Cur(p), AfterNode(cfg, cache[p], pc[p])))
       ELSE \E st \in GetStatuses : Apply(p, NodeListed(Cur(p), cfg, st))

NodeCreated(m, c, st) ==
    LET node == c.workflow_job_templates[m.pos.i].nodes[m.pos.j]
        obj == [id |-> m.nextId["workflow_nodes"],
                workflow_job_template |-> m.lc.id,
                unified_job_template |-> DictGet(m.ch.jt_ids, node.job_template)]
    IN IF st # 201 THEN Raise(m, Req("create", "workflow_nodes", st, 0, "HTTPError"))
       ELSE [m EXCEPT !.remote["workflow_nodes"] = @ \cup {obj},
                      !.nextId["workflow_nodes"] = @ + 1,
                      !.lc.node_id_map = DictSet(@, node.identifier, obj.id),
                      !.pos = AfterNode(c, m.ch, m.pos),
                      !.req = Req("create", "workflow_nodes", 201, obj.id, "")]

NodeCreate(p) ==
    /\ AtUpsert(p, {"node_create"})
    /\ \E st \in CreateStatuses : Apply(p, NodeCreated(Cur(p), cfg, st))

\* the edge requested whether or not its ends are in node_id_map
EdgeLinkedUnguarded(m, link, st, next) == AssociateQuietly(m, link, st, next)

\* if not source_node_id: continue ... if target_node_id: try: _post_no_body(...)
EdgeLinked(m, link, st, next) ==
    IF link[2] # 0 /\ link[3] # 0 THEN AssociateQuietly(m, link, st, next)
    ELSE Skip(m, next)

\* second pass: an edge is requested when both its ends are in node_id_map
EdgeAssoc(p) ==
    LET m == Cur(p)
        edge == EdgeList(cfg.workflow_job_templates[m.pos.i])[m.pos.e]
        source_node_id == DictGet(m.lc.node_id_map, edge.source)
        target_node_id == DictGet(m.lc.node_id_map, edge.target)
        link == <<edge.edge_type, source_node_id, target_node_id>>
        next == AfterEdge(cfg, m.ch, m.pos)
    IN /\ AtUpsert(p, {"edge"})
       /\ \E st \in (IF source_node_id # 0 /\ target_node_id # 0
                     THEN AssocStatuses(link) ELSE {204}) :
             Apply(p, EdgeLinked(m, link, st, next))

\* ---------------------------------------------------------- role assignments
\* object_caches
ObjectCache(ch, obj_type) ==
    CASE obj_type = "job_templates" -> ch.jt_ids
      [] obj_type = "workflow_job_templates" -> ch.wfjt_ids
      [] obj_type = "inventories" -> ch.inventory_ids
      [] obj_type = "projects" -> ch.project_ids
      [] obj_type = "credentials" -> ch.cred_ids
      [] OTHER -> EmptyDict

\* for key, tid in self.team_ids.items(): the first key ending in "/<team>"
TeamIdByName(team_ids, team_name) ==
    LET hits == {n \in 1..Len(team_ids) : EndsWith(team_ids[n].k, "/" \o team_name)}
    IN IF hits = {} THEN 0 ELSE team_ids[CHOOSE n \in hits : \A x \in hits : n <= x].v

\* the remote's id of a role level of an object, as its detail shows it
RoleId(obj_type, obj_id, role_field) ==
    LET type_no == CHOOSE n \in 1..5 :
                      <<"job_templates", "workflow_job_templates", "inventories",
                        "projects", "credentials">>[n] = obj_type
        level_no == CHOOSE n \in 1..4 :
                      <<"admin_role", "execute_role", "read_role", "use_role">>[n] = role_field
    IN 1000 * type_no + 10 * obj_id + level_no

\* the grant gone for whether or not the object has the named role level
RoleDetailedAnyLevel(m, c, st) ==
    LET ra == c.role_assignments[m.pos.i]
        obj_id == DictGet(ObjectCache(m.ch, ra.object_type), ra.object_name)
    IN IF st # 200 THEN Raise(m, Req("detail", ra.object_type, st, 0, "HTTPError"))
       ELSE [m EXCEPT !.lc.id = obj_id,
                      !.lc.team_id = TeamIdByName(m.ch.team_ids, ra.team),
                      !.lc.role_id = RoleId(ra.object_type, obj_id, ra.role_field),
                      !.pos.ph = "grant",
                      !.req = Req("detail", ra.object_type, 200, obj_id, "")]

RoleDetailed(m, c, st) ==
    LET ra == c.role_assignments[m.pos.i]
        obj_id == DictGet(ObjectCache(m.ch, ra.object_type), ra.object_name)
    IN IF st # 200 THEN Raise(m, Req("detail", ra.object_type, st, 0, "HTTPError"))
       ELSE IF ra.role_field \notin ObjectRoles(ra.object_type)
       THEN [m EXCEPT !.pos = NextInstance(c, m.ch, m.pos),
                      !.req = Req("detail", ra.object_type, 200, 0, "")]
       ELSE [m EXCEPT !.lc.id = obj_id,
                      !.lc.team_id = TeamIdByName(m.ch.team_ids, ra.team),
                      !.lc.role_id = RoleId(ra.object_type, obj_id, ra.role_field),
                      !.pos.ph = "grant",
                      !.req = Req("detail", ra.object_type, 200, obj_id, "")]

\* assign_team_roles up to the answer to the object's detail
RoleDetail(p) ==
    LET ra == cfg.role_assignments[pc[p].i]
    IN /\ AtUpsert(p, {"detail"})
       /\ IF \/ DictGet(ObjectCache(cache[p], ra.object_type), ra.object_name) = 0
             \/ TeamIdByName(cache[p].team_ids, ra.team) = 0
          THEN Apply(p, Skip(Cur(p), NextInstance(cfg, cache[p], pc[p])))
          ELSE \E st \in GetStatuses : Apply(p, RoleDetailed(Cur(p), cfg, st))

\* assign_team_roles: the grant
RoleGrant(p) ==
    LET m == Cur(p)
        link == <<"role_teams", m.lc.role_id, m.lc.team_id>>
        next == NextInstance(cfg, m.ch, m.pos)
    IN /\ AtUpsert(p, {"grant"})
       /\ \E st \in AssocStatuses(link) : Apply(p, AssociateQuietly(m, link, st, next))

\* ------------------------------------------------------------------ the waiter
\* while pending and time.time() < deadline
LoopTest(m) ==
    IF m.lc.pending # {} /\ m.now < m.lc.deadline
    THEN [m EXCEPT !.pos.ph = "poll", !.lc.still_pending = {}, !.lc.todo = m.lc.pending]
    ELSE [m EXCEPT !.pos.ph = "return"]

\* a waiter that tracks the projects that have not started to sync only
WaitEnteredNewOnly(m) ==
    LoopTest([m EXCEPT !.now = 0,
                       !.lc.deadline = Timeout,
                       !.lc.pending = {pid \in DictValues(m.ch.project_ids) :
                                          m.proj_status[pid] = "new"}])

\* _wait_for_project_syncs up to the first test of the loop
WaitEntered(m) ==
    LoopTest([m EXCEPT !.now = 0,
                       !.lc.deadline = Timeout,
                       !.lc.pending = DictValues(m.ch.project_ids)])

WaitEnter(p) ==
    /\ pc[p].step = "wait" /\ pc[p].ph = "enter"
    /\ Apply(p, WaitEntered(Cur(p)))

\* a round that goes on tracking a project whatever status it reports
PolledStillTracked(m, pid, status, st, lat) ==
    IF st # 200 THEN Raise([m EXCEPT !.now = @ + lat],
                           Req("poll", "projects", st, pid, "HTTPError"))
    ELSE LET m2 == [m EXCEPT !.now = @ + lat,
                             !.proj_status[pid] = status,
                             !.lc.todo = @ \ {pid},
                             !.lc.still_pending = @ \cup {pid},
                             !.req = Req("poll", "projects", 200, pid, "")]
         IN IF m2.lc.todo = {} THEN [m2 EXCEPT !.pos.ph = "round_end"] ELSE m2

\* one project of the round is asked for its status
Polled(m, pid, status, st, lat) ==
    IF st # 200 THEN Raise([m EXCEPT !.now = @ + lat],
                           Req("poll", "projects", st, pid, "HTTPError"))
    ELSE LET m2 == [m EXCEPT !.now = @ + lat,
                             !.proj_status[pid] = status,
                             !.lc.todo = @ \ {pid},
                             !.lc.still_pending =
                                 IF status \in InProgress THEN @ \cup {pid} ELSE @,
                             !.req = Req("poll", "projects", 200, pid, "")]
         IN IF m2.lc.todo = {} THEN [m2 EXCEPT !.pos.ph = "round_end"] ELSE m2

WaitPoll(p) ==
    /\ pc[p].step = "wait" /\ pc[p].ph = "poll"
    /\ \E pid \in loc[p].todo : \E lat \in {0, MaxLatency} : \E st \in GetStatuses :
       \E status \in NextStatuses(proj_status[pid]) :
           Apply(p, Polled(Cur(p), pid, status, st, lat))

\* pending = still_pending; if pending: time.sleep(3); and the test of the loop
RoundEnded(m) ==
    LoopTest([m EXCEPT !.lc.pending = m.lc.still_pending,
                       !.now = IF m.lc.still_pending # {} THEN @ + PollInterval ELSE @])

WaitSleep(p) ==
    /\ pc[p].step = "wait" /\ pc[p].ph = "round_end"
    /\ Apply(p, RoundEnded(Cur(p)))

\* "if pending:" the warning, and back in main() the creator after create_projects
WaitReturned(m, c) ==
    [m EXCEPT !.wait = IF m.lc.pending # {} THEN "timed_out" ELSE "completed",
              !.lc = NoLocals,
              !.now = 0,
              !.pos = EnterStep(c, m.ch, StepIndex("projects") + 1)]

WaitReturn(p) ==
    /\ pc[p].step = "wait" /\ pc[p].ph = "return"
    /\ Apply(p, WaitReturned(Cur(p), cfg))

\* ------------------------------------------------------- the Decommissioner
\* the deleters with delete_organizations called before delete_teams
CleanOrderOrganizationsEarly ==
    <<"workflow_job_templates", "job_templates", "inventories", "projects",
      "credentials", "credential_types", "users", "organizations", "teams">>

\* the calls of main() of the cleanup script, in order
CleanOrder == <<"workflow_job_templates", "job_templates", "inventories", "projects",
                "credentials", "credential_types", "users", "teams", "organizations">>

\* the name lists of the cleanup script "must match what 0_populate_awx_assets.py
\* creates": every declared name of the kind, once
RECURSIVE Distinct(_)
Distinct(names) ==
    IF names = << >> THEN << >>
    ELSE LET front == Distinct(SubSeq(names, 1, Len(names) - 1))
             last == names[Len(names)]
         IN IF last \in Range(front) THEN front ELSE Append(front, last)

\* name lists that have a built-in name in them next to the declared ones
CleanNamesWithBuiltin(c, kind) ==
    Distinct([n \in 1..Len(c[kind]) |->
                 IF kind = "users" THEN c[kind][n].username ELSE c[kind][n].name])
    \o <<"Machine">>

CleanNames(c, kind) ==
    Distinct([n \in 1..Len(c[kind]) |->
                 IF kind = "users" THEN c[kind][n].username ELSE c[kind][n].name])

CPos(step, i, ph) == [step |-> step, i |-> i, ph |-> ph]

\* AWXCleaner.__init__, and the locals of main() and _delete_by_name
NewCleaner == [pos |-> CPos("idle", 0, ""), deleted |-> 0, skipped |-> 0, failed |-> 0,
               obj_id |-> 0, exit_code |-> 0, summary |-> FALSE, req |-> NoReq,
               kinds |-> << >>]

\* main() calling the n-th deleter: one with no names returns at once
RECURSIVE CleanEnter(_, _)
CleanEnter(c, n) ==
    IF n > Len(CleanOrder) THEN CPos("exit", 0, "")
    ELSE IF Len(CleanNames(c, CleanOrder[n])) > 0 THEN CPos(CleanOrder[n], 1, "find")
    ELSE CleanEnter(c, n + 1)

CleanIndex(step) == CHOOSE n \in 1..Len(CleanOrder) : CleanOrder[n] = step

CleanNext(c, pos) ==
    IF pos.i < Len(CleanNames(c, pos.step)) THEN CPos(pos.step, pos.i + 1, "find")
    ELSE CleanEnter(c, CleanIndex(pos.step) + 1)

\* what one step of the cleaner reads and writes
CCur == [cl |-> cleaner, remote |-> remote, assoc |-> assoc]

\* the deleters main() has called so far: all up to the one at work, and all of
\* them once "Done!" is printed
KindsEntered(cl, pos) ==
    IF pos.step \in Range(CleanOrder) THEN SubSeq(CleanOrder, 1, CleanIndex(pos.step))
    ELSE IF pos.step = "exit" /\ cl.req.exc = "" THEN CleanOrder
    ELSE cl.kinds

CApply(m) ==
    LET starting == cleaner.pos.step \in {"idle", "exit"}
        ending == m.cl.pos.step = "exit"
        rc == ExitCode(m.cl.req)
    IN
    /\ cleaner' = [m.cl EXCEPT !.exit_code = IF ending THEN rc ELSE @,
                               !.summary = IF ending THEN rc = 0 ELSE @,
                               !.kinds = KindsEntered(m.cl, m.cl.pos)]
    /\ remote' = m.remote
    /\ assoc' = m.assoc
    /\ errs' = IF IsError(m.cl.req) THEN Append(errs, m.cl.req) ELSE errs
    /\ runs' = IF starting THEN runs + 1 ELSE runs
    /\ hist' = IF ending THEN Append(hist, [prog |-> "cleanup", rc |-> rc]) ELSE hist
    /\ snap' = IF ending THEN Append(snap, [remote |-> m.remote, assoc |-> m.assoc])
               ELSE snap
    /\ UNCHANGED <<cfg, nextId, proj_status, now, procs, pc, cache, loc, exit_code,
                   summary, attempted, last_req, wait_outcome, aap, col>>

CRaise(m, req) == [m EXCEPT !.cl.pos = CPos("exit", 0, ""), !.cl.req = req]

\* main() of the cleanup script up to the first deleter
CleanStarted(m, c, st) ==
    IF st = 200 THEN [m EXCEPT !.cl.pos = CleanEnter(c, 1),
                               !.cl.req = Req("ping", "ping", 200, 0, "")]
    ELSE CRaise(m, Req("ping", "ping", st, 0,
                       IF st = 0 THEN "ConnectionError" ELSE "HTTPError"))

CleanStart ==
    /\ cleaner.pos.step \in {"idle", "exit"}
    /\ \A p \in procs : pc[p].step \in {"idle", "exit"}
    /\ runs < MaxRuns
    /\ \E st \in PingStatuses :
          CApply(CleanStarted([CCur EXCEPT !.cl = NewCleaner], cfg, st))

\* a lookup that counts a name the remote does not have as failed
CleanLookedUpAbsentFailed(m, c, st) ==
    LET kind == m.cl.pos.step
        results == FirstPage(Matches(m.remote, kind, CleanNames(c, kind)[m.cl.pos.i],
                                     NoScope))
    IN IF st # 200 THEN CRaise(m, Req("find", kind, st, 0, "HTTPError"))
       ELSE IF results = << >>
       THEN [m EXCEPT !.cl.failed = @ + 1,
                      !.cl.pos = CleanNext(c, m.cl.pos),
                      !.cl.req = Req("find", kind, 200, 0, "")]
       ELSE [m EXCEPT !.cl.obj_id = results[1].id,
                      !.cl.pos.ph = "delete",
                      !.cl.req = Req("find", kind, 200, results[1].id, "")]

\* _delete_by_name / delete_users up to the answer to the lookup
CleanLookedUp(m, c, st) ==
    LET kind == m.cl.pos.step
        results == FirstPage(Matches(m.remote, kind, CleanNames(c, kind)[m.cl.pos.i],
                                     NoScope))
    IN IF st # 200 THEN CRaise(m, Req("find", kind, st, 0, "HTTPError"))
       ELSE IF results = << >>
       THEN [m EXCEPT !.cl.skipped = @ + 1,
                      !.cl.pos = CleanNext(c, m.cl.pos),
                      !.cl.req = Req("find", kind, 200, 0, "")]
       ELSE [m EXCEPT !.cl.obj_id = results[1].id,
                      !.cl.pos.ph = "delete",
                      !.cl.req = Req("find", kind, 200, results[1].id, "")]

CleanFind ==
    /\ cleaner.pos.step \in Range(CleanOrder) /\ cleaner.pos.ph = "find"
    /\ \E st \in GetStatuses : CApply(CleanLookedUp(CCur, cfg, st))

\* the links of an object: they go when the object goes
LinksOf(links, kind, id) ==
    {l \in links :
        \/ l[1] = "org_users" /\ ((kind = "organizations" /\ l[2] = id)
                                  \/ (kind = "users" /\ l[3] = id))
        \/ l[1] = "team_users" /\ ((kind = "teams" /\ l[2] = id)
                                   \/ (kind = "users" /\ l[3] = id))
        \/ l[1] = "group_hosts" /\ ((kind = "groups" /\ l[2] = id)
                                    \/ (kind = "hosts" /\ l[3] = id))
        \/ l[1] = "jt_credentials" /\ ((kind = "job_templates" /\ l[2] = id)
                                       \/ (kind = "credentials" /\ l[3] = id))
        \/ l[1] \in Range(EdgeTypes) /\ kind = "workflow_nodes" /\ id \in {l[2], l[3]}
        \/ l[1] = "role_teams" /\ kind = "teams" /\ l[3] = id
        \/ l[1] = "role_teams" /\ kind \in {"job_templates", "workflow_job_templates",
                                           "inventories", "projects", "credentials"}
                               /\ \E f \in ObjectRoles(kind) : l[2] = RoleId(kind, id, f)}

\* the objects that go with an object: the hosts and groups of an inventory, the
\* nodes of a workflow
Nested(rem, kind, id) ==
    CASE kind = "inventories" ->
             {<<"hosts", o.id>> : o \in {h \in rem["hosts"] : h.inventory = id}}
             \cup {<<"groups", o.id>> : o \in {g \in rem["groups"] : g.inventory = id}}
      [] kind = "workflow_job_templates" ->
             {<<"workflow_nodes", o.id>> :
                 o \in {n \in rem["workflow_nodes"] : n.workflow_job_template = id}}
      [] OTHER -> {}

\* the remote without an object, what is nested in it and their links
Removed(m, kind, id) ==
    LET gone == {<<kind, id>>} \cup Nested(m.remote, kind, id)
    IN [m EXCEPT !.remote = [kd \in Kinds |-> {o \in m.remote[kd] : <<kd, o.id>> \notin gone}],
                 !.assoc = m.assoc \ UNION {LinksOf(m.assoc, g[1], g[2]) : g \in gone}]

\* the answers to a delete request; 404 is the answer for an object that went
\* away after the lookup
DeleteStatuses == {204} \cup Fails({404, 500})

\* _delete and what _delete_by_name / delete_users make of its result
CleanDeleted(m, c, st) ==
    LET kind == m.cl.pos.step
        req == Req("delete", kind, st, m.cl.obj_id, "")
        next == CleanNext(c, m.cl.pos)
    IN CASE st \in {204, 202} ->
                [Removed(m, kind, m.cl.obj_id) EXCEPT !.cl.deleted = @ + 1,
                                                      !.cl.pos = next, !.cl.req = req]
         [] st = 404 ->
                [Removed(m, kind, m.cl.obj_id) EXCEPT !.cl.failed = @ + 1,
                                                      !.cl.pos = next, !.cl.req = req]
         [] OTHER -> CRaise(m, [req EXCEPT !.exc = "HTTPError"])

CleanDelete ==
    /\ cleaner.pos.step \in Range(CleanOrder) /\ cleaner.pos.ph = "delete"
    /\ \E st \in DeleteStatuses : CApply(CleanDeleted(CCur, cfg, st))

\* ------------------------------------------ the protected-name Decommissioner
\* the names that are never deleted
SKIP_ORGS == {"Default"}
SKIP_PROJECTS == {"Demo Project"}
SKIP_INVENTORIES == {"Demo Inventory"}
SKIP_CREDENTIALS == {"Demo Credential"}
SKIP_EES == {"Control Plane Execution Environment", "Default execution environment",
             "Ansible Engine 2.9 Execution Environment", "Minimal execution environment"}

\* the list "order" of delete_all_non_default: endpoint and protected names
AapOrder ==
    << [endpoint |-> "workflow_job_templates", skip_names |-> {}],
       [endpoint |-> "job_templates", skip_names |-> {}],
       [endpoint |-> "inventories", skip_names |-> SKIP_INVENTORIES],
       [endpoint |-> "projects", skip_names |-> SKIP_PROJECTS],
       [endpoint |-> "credentials", skip_names |-> SKIP_CREDENTIALS],
       [endpoint |-> "execution_environments", skip_names |-> SKIP_EES],
       [endpoint |-> "organizations", skip_names |-> SKIP_ORGS] >>

AapKinds == {AapOrder[n].endpoint : n \in 1..Len(AapOrder)}

\* a controller as installed, with what a team added to it: the demo objects,
\* managed credentials and execution environments, three projects of the team
AapInstalled ==
    [ remote |->
        [kd \in AapKinds |->
           CASE kd = "workflow_job_templates" ->
                    {[id |-> 1, name |-> "WF1", managed |-> FALSE]}
             [] kd = "job_templates" ->
                    {[id |-> 1, name |-> "Demo Job Template", managed |-> FALSE]}
             [] kd = "inventories" ->
                    {[id |-> 1, name |-> "Demo Inventory", managed |-> FALSE],
                     [id |-> 2, name |-> "Inv-A", managed |-> FALSE]}
             [] kd = "projects" ->
                    {[id |-> 1, name |-> "Demo Project", managed |-> FALSE],
                     [id |-> 2, name |-> "P1", managed |-> FALSE],
                     [id |-> 3, name |-> "P2", managed |-> FALSE]}
             [] kd = "credentials" ->
                    {[id |-> 1, name |-> "Demo Credential", managed |-> FALSE],
                     [id |-> 2, name |-> "Ansible Galaxy", managed |-> TRUE]}
             [] kd = "execution_environments" ->
                    {[id |-> 1, name |-> "Control Plane Execution Environment",
                      managed |-> TRUE],
                     [id |-> 2, name |-> "Team EE", managed |-> FALSE]}
             [] kd = "organizations" ->
                    {[id |-> 1, name |-> "Default", managed |-> FALSE],
                     [id |-> 2, name |-> "Org-A", managed |-> FALSE]}],
      nextId |-> [kd \in AapKinds |-> 4],
      assoc |-> {},
      proj_status |-> << >> ]

\* a controller that holds the protected objects only
AapPristine ==
    [AapInstalled EXCEPT
        !.remote = [kd \in AapKinds |->
                       {o \in AapInstalled.remote[kd] :
                           o.managed \/ \E n \in 1..Len(AapOrder) :
                                           /\ AapOrder[n].endpoint = kd
                                           /\ o.name \in AapOrder[n].skip_names}]]

AapTargets == {AapInstalled, AapPristine}

\* where main() of the protected-name cleanup stands: at the k-th entry of
\* "order", fetching its list or at the i-th object of the list
APos(step, k, i) == [step |-> step, k |-> k, i |-> i]

\* AAPCleaner.__init__, and the locals of _get_all and delete_all_non_default;
\* asked: the delete requests of the run
NewAAP == [pos |-> APos("idle", 0, 0), deleted |-> 0, skipped |-> 0, failed |-> 0,
           page |-> 0, results |-> << >>, objects |-> << >>,
           exit_code |-> 0, summary |-> FALSE, req |-> NoReq, asked |-> {}]

\* data["results"] of the n-th page of a list, and whether data["next"] is set
PageOf(S, n) ==
    LET all == SortById(S)
        last == IF Len(all) < n * PageSize THEN Len(all) ELSE n * PageSize
    IN SubSeq(all, (n - 1) * PageSize + 1, last)

HasNextPage(S, n) == Cardinality(S) > n * PageSize

\* what one step of the protected-name cleaner reads and writes
ACur == [cl |-> aap, remote |-> remote]

AApply(m) ==
    LET starting == aap.pos.step \in {"idle", "exit"}
        ending == m.cl.pos.step = "exit"
        rc == ExitCode(m.cl.req)
    IN
    /\ aap' = [m.cl EXCEPT !.exit_code = IF ending THEN rc ELSE @,
                           !.summary = IF ending THEN rc = 0 ELSE @]
    /\ remote' = m.remote
    /\ errs' = IF IsError(m.cl.req) THEN Append(errs, m.cl.req) ELSE errs
    /\ runs' = IF starting THEN runs + 1 ELSE runs
    /\ hist' = IF ending THEN Append(hist, [prog |-> "cleanup_aap", rc |-> rc]) ELSE hist
    /\ snap' = IF ending THEN Append(snap, [remote |-> m.remote, assoc |-> assoc])
               ELSE snap
    /\ UNCHANGED <<cfg, nextId, assoc, proj_status, now, procs, pc, cache, loc,
                   exit_code, summary, attempted, last_req, wait_outcome, cleaner, col>>

\* the for loop of delete_all_non_default going to the entry after the k-th
AapNextKind(cl, k) ==
    [cl EXCEPT !.pos = IF k < Len(AapOrder) THEN APos("list", k + 1, 0)
                       ELSE APos("exit", 0, 0),
               !.page = IF k < Len(AapOrder) THEN 1 ELSE 0,
               !.results = << >>, !.objects = << >>]

\* the for loop over the objects going to the object after the i-th
AapNextObject(cl) ==
    IF cl.pos.i < Len(cl.objects) THEN [cl EXCEPT !.pos.i = @ + 1]
    ELSE AapNextKind(cl, cl.pos.k)

\* main() up to delete_all_non_default: the connectivity check
AapStarted(m, st) ==
    IF st = 200 THEN [m EXCEPT !.cl = [AapNextKind(m.cl, 0) EXCEPT
                                          !.req = Req("ping", "ping", 200, 0, "")]]
    ELSE [m EXCEPT !.cl.pos = APos("exit", 0, 0),
                   !.cl.req = Req("ping", "ping", st, 0,
                                  IF st = 0 THEN "ConnectionError" ELSE "HTTPError")]

AapStart ==
    /\ aap.pos.step \in {"idle", "exit"}
    /\ runs < MaxRuns
    /\ \E st \in PingStatuses : AApply(AapStarted([ACur EXCEPT !.cl = NewAAP], st))

\* a listing that gives up the whole run when a request of it fails
AapListedAborting(m, st) ==
    LET kind == AapOrder[m.cl.pos.k].endpoint
        all == m.cl.results \o PageOf(m.remote[kind], m.cl.page)
        req == Req("list", kind, st, 0, "")
    IN IF st # 200
       THEN [m EXCEPT !.cl = [AapNextKind(m.cl, Len(AapOrder)) EXCEPT !.req = req]]
       ELSE IF HasNextPage(m.remote[kind], m.cl.page)
       THEN [m EXCEPT !.cl.results = all, !.cl.page = @ + 1, !.cl.req = req]
       ELSE IF all = << >>
       THEN [m EXCEPT !.cl = [AapNextKind(m.cl, m.cl.pos.k) EXCEPT !.req = req]]
       ELSE [m EXCEPT !.cl.objects = all, !.cl.results = << >>, !.cl.page = 0,
                      !.cl.pos = APos("objects", m.cl.pos.k, 1), !.cl.req = req]

\* one request of _get_all, and what delete_all_non_default does when the list
\* is complete or the request has failed
AapListed(m, st) ==
    LET kind == AapOrder[m.cl.pos.k].endpoint
        all == m.cl.results \o PageOf(m.remote[kind], m.cl.page)
        req == Req("list", kind, st, 0, "")
    IN IF st # 200 THEN [m EXCEPT !.cl = [AapNextKind(m.cl, m.cl.pos.k) EXCEPT !.req = req]]
       ELSE IF HasNextPage(m.remote[kind], m.cl.page)
       THEN [m EXCEPT !.cl.results = all, !.cl.page = @ + 1, !.cl.req = req]
       ELSE IF all = << >>
       THEN [m EXCEPT !.cl = [AapNextKind(m.cl, m.cl.pos.k) EXCEPT !.req = req]]
       ELSE [m EXCEPT !.cl.objects = all, !.cl.results = << >>, !.cl.page = 0,
                      !.cl.pos = APos("objects", m.cl.pos.k, 1), !.cl.req = req]

AapList ==
    /\ aap.pos.step = "list"
    /\ \E st \in GetStatuses : AApply(AapListed(ACur, st))

\* a test that looks at the names only
ProtectedByNameOnly(k, obj) == obj.name \in AapOrder[k].skip_names

\* name in skip_names, or obj.get("managed")
Protected(k, obj) == obj.name \in AapOrder[k].skip_names \/ obj.managed

\* the object the loop is at is a default or a managed one: no request
AapSkipped(m) ==
    LET obj == m.cl.objects[m.cl.pos.i]
    IN [m EXCEPT !.cl = [AapNextObject(m.cl) EXCEPT
                            !.skipped = @ + 1,
                            !.req = Req("none", AapOrder[m.cl.pos.k].endpoint, 0,
                                        obj.id, "")]]

AapSkip ==
    /\ aap.pos.step = "objects"
    /\ Protected(aap.pos.k, aap.objects[aap.pos.i])
    /\ AApply(AapSkipped(ACur))

\* _delete_object: the delete request and what is counted
AapDeleted(m, st) ==
    LET kind == AapOrder[m.cl.pos.k].endpoint
        obj == m.cl.objects[m.cl.pos.i]
        gone == [m.remote EXCEPT ![kind] = {o \in @ : o.id # obj.id}]
        after == [AapNextObject(m.cl) EXCEPT !.req = Req("delete", kind, st, obj.id, ""),
                                             !.asked = @ \cup {<<kind, obj.id>>}]
    IN CASE st \in {204, 202} -> [m EXCEPT !.remote = gone,
                                          !.cl = [after EXCEPT !.deleted = @ + 1]]
         [] st = 404 -> [m EXCEPT !.remote = gone,
                                  !.cl = [after EXCEPT !.skipped = @ + 1]]
         [] OTHER -> [m EXCEPT !.cl = [after EXCEPT !.failed = @ + 1]]

AapDelete ==
    /\ aap.pos.step = "objects"
    /\ ~Protected(aap.pos.k, aap.objects[aap.pos.i])
    /\ \E st \in DeleteStatuses : AApply(AapDeleted(ACur, st))

\* ------------------------------------------------------------ the Collector
\* the keys of self.downloaded and self.dirs
ColKeys == {"workflows", "job_templates", "projects", "inventories", "credentials",
            "execution_environments", "organizations"}

\* the endpoint behind a key, which is also its key in self.stats
Endpoint(key) == IF key = "workflows" THEN "workflow_job_templates" ELSE key

GraphKinds == {Endpoint(key) : key \in ColKeys} \cup {"workflow_nodes"}

Digits == <<"0", "1", "2", "3", "4", "5", "6", "7", "8", "9">>

RECURSIVE Str(_)
Str(n) == IF n < 10 THEN Digits[n + 1] ELSE Str(n \div 10) \o Digits[(n % 10) + 1]

\* related.unified_job_template of a node, as the remote writes it
Url(endpoint, id) == "/api/controller/v2/" \o endpoint \o "/" \o Str(id) \o "/"

\* sub in s
Contains(s, sub) ==
    \E n \in 1..(Len(s) - Len(sub) + 1) : SubSeq(s, n, n + Len(sub) - 1) = sub

\* s.rstrip('/')
RStrip(s) ==
    LET kept == {n \in 1..Len(s) : SubSeq(s, n, n) # "/"}
    IN SubSeq(s, 1, IF kept = {} THEN 0 ELSE CHOOSE n \in kept : \A k \in kept : k <= n)

\* s.split('/')[-1]
LastSegment(s) ==
    LET cuts == {n \in 1..Len(s) : SubSeq(s, n, n) = "/"}
    IN SubSeq(s, IF cuts = {} THEN 1 ELSE 1 + CHOOSE n \in cuts : \A k \in cuts : k <= n,
              Len(s))

\* int(s) of a string of digits, read up to its n-th character
RECURSIVE ToInt(_, _)
ToInt(s, n) ==
    IF n = 0 THEN 0
    ELSE 10 * ToInt(s, n - 1) + (CHOOSE d \in 0..9 : Digits[d + 1] = SubSeq(s, n, n))

Node(id, wf, endpoint, ujt) ==
    [id |-> id, workflow_job_template |-> wf, unified_job_template |-> ujt,
     related |-> Url(endpoint, ujt)]

Graph(objects) ==
    [ remote |-> [kd \in GraphKinds |-> IF kd \in DOMAIN objects THEN objects[kd] ELSE {}],
      nextId |-> [kd \in GraphKinds |-> 100],
      assoc |-> {},
      proj_status |-> << >> ]

Inputs(n) == [username |-> "svc" \o Str(n), password |-> "$encrypted$"]

\* two workflows whose job templates share a project, an inventory, a credential
\* and an organization; the organization and its default execution environment
\* refer to each other
GraphShared ==
    Graph([workflow_job_templates |-> {[id |-> 1, name |-> "WF-A"],
                                       [id |-> 2, name |-> "WF-B"]},
           workflow_nodes |-> {Node(1, 1, "job_templates", 11),
                               Node(2, 1, "job_templates", 12),
                               Node(3, 2, "job_templates", 12)},
           job_templates |-> {[id |-> 11, name |-> "JT-1", project |-> 1, inventory |-> 1,
                               execution_environment |-> 1, credentials |-> <<1>>],
                              [id |-> 12, name |-> "JT-2", project |-> 1, inventory |-> 1,
                               execution_environment |-> 0, credentials |-> <<1, 2>>]},
           projects |-> {[id |-> 1, name |-> "P1", organization |-> 1, credential |-> 2]},
           inventories |-> {[id |-> 1, name |-> "Inv-A", organization |-> 1]},
           credentials |-> {[id |-> 1, name |-> "Machine", organization |-> 1,
                             inputs |-> Inputs(1)],
                            [id |-> 2, name |-> "SCM", organization |-> 0,
                             inputs |-> Inputs(2)]},
           execution_environments |-> {[id |-> 1, name |-> "EE-1", organization |-> 1]},
           organizations |-> {[id |-> 1, name |-> "Org-A", default_environment |-> 1]}])

\* two workflows that run each other as nodes, one of them a job template too
GraphNested ==
    Graph([workflow_job_templates |-> {[id |-> 1, name |-> "WF-A"],
                                       [id |-> 2, name |-> "WF-B"]},
           workflow_nodes |-> {Node(1, 1, "workflow_job_templates", 2),
                               Node(2, 2, "workflow_job_templates", 1),
                               Node(3, 2, "job_templates", 11)},
           job_templates |-> {[id |-> 11, name |-> "JT-1", project |-> 1, inventory |-> 0,
                               execution_environment |-> 0, credentials |-> << >>]},
           projects |-> {[id |-> 1, name |-> "P1", organization |-> 0, credential |-> 0]}])

\* more workflows and more nodes of a workflow than a page of a list holds
GraphPaged ==
    Graph([workflow_job_templates |-> {[id |-> n, name |-> "WF-" \o Str(n)] :
                                          n \in 1..(PageSize + 1)},
           workflow_nodes |-> {Node(n, 1, "job_templates", 10 + n) : n \in 1..(PageSize + 1)},
           job_templates |-> {[id |-> 10 + n, name |-> "JT-" \o Str(n), project |-> 0,
                               inventory |-> 0, execution_environment |-> 0,
                               credentials |-> << >>] : n \in 1..(PageSize + 1)}])

Graphs == {GraphShared, GraphNested, GraphPaged}

Call(key, id) == [key |-> key, id |-> id]

\* AAPAssetDownloader.__init__, the calls that are still to be made in the order
\* they will be made, and the run so far: log holds every detail request and
\* every write of a detail document, files the documents on disk
NewCollector ==
    [pos |-> "idle", todo |-> << >>, downloaded |-> [key \in ColKeys |-> {}],
     stats |-> EmptyDict, files |-> {}, log |-> << >>, faults |-> 0,
     exit_code |-> 0, summary |-> FALSE]

\* an error, while the bound on errors allows one
ColFails(cl, S) == IF cl.faults < MaxFaults THEN S ELSE {}

\* F(x), with x evaluated once
Once(x, F(_)) == CHOOSE r \in {F(v) : v \in {x}} : TRUE

\* int(related_url.rstrip('/').split('/')[-1])
JtId(related_url) ==
    Once(RStrip(related_url),
         LAMBDA stripped : Once(LastSegment(stripped),
                                LAMBDA last : ToInt(last, Len(last))))

\* the body of the loop over nodes.get('results'): the job template it downloads
NodeCall(node) ==
    IF /\ node.unified_job_template # 0
       /\ node.related # ""
       /\ Contains(node.related, "job_templates")
    THEN <<Call("job_templates", JtId(node.related))>>
    ELSE << >>

RECURSIVE NodeCalls(_)
NodeCalls(nodes) ==
    IF nodes = << >> THEN << >>
    ELSE Once(Head(nodes), NodeCall) \o NodeCalls(Tail(nodes))

Maybe(key, id) == IF id # 0 THEN <<Call(key, id)>> ELSE << >>

\* the downloads a download_* function calls once the object is marked, in order
Refs(rem, key, obj) ==
    CASE key = "workflows" ->
             NodeCalls(FirstPage({n \in rem["workflow_nodes"] :
                                     n.workflow_job_template = obj.id}))
      [] key = "job_templates" ->
             Maybe("projects", obj.project) \o Maybe("inventories", obj.inventory)
             \o Maybe("execution_environments", obj.execution_environment)
             \o [n \in 1..Len(obj.credentials) |-> Call("credentials", obj.credentials[n])]
      [] key = "projects" ->
             Maybe("organizations", obj.organization) \o Maybe("credentials", obj.credential)
      [] key \in {"inventories", "credentials", "execution_environments"} ->
             Maybe("organizations", obj.organization)
      [] OTHER -> << >>

\* {'_note': 'Sensitive data removed'}
Placeholder == "_note" :> "Sensitive data removed"

\* a document written as the remote returned it
Unredacted(key, obj) == obj

\* the document save_json writes: what the remote returned, a credential with
\* its inputs replaced
Document(key, obj) ==
    IF key = "credentials" /\ "inputs" \in DOMAIN obj THEN [obj EXCEPT !.inputs = Placeholder]
    ELSE obj

\* a request for a detail or a list, or a write of a document, and how it went:
\* "ok", "not_found" (status 404) or "error" (status 500, or an OSError)
Event(op, key, id, res) == [op |-> op, key |-> key, id |-> id, res |-> res]

\* self.stats[key] += 1 on a defaultdict(int)
Counted(stats, key) == DictSet(stats, key, DictGet(stats, key) + 1)

\* a function that never marks what it downloaded
MarkedNever(downloaded, key, id) == downloaded

\* self.downloaded[key].add(id)
Marked(downloaded, key, id) == [downloaded EXCEPT ![key] = @ \cup {id}]

\* a test that finds nothing visited
VisitedNever(cl, call) == FALSE

\* id in self.downloaded[key]
Visited(cl, call) == call.id \in cl.downloaded[call.key]

ColApply(cl) ==
    LET starting == col.pos \in {"idle", "exit"}
        ending == cl.pos = "exit"
        new == IF starting THEN cl.log ELSE SubSeq(cl.log, Len(col.log) + 1, Len(cl.log))
        bad == SelectSeq(new, LAMBDA e : e.res # "ok")
    IN
    /\ col' = [cl EXCEPT !.summary = ending /\ cl.exit_code = 0]
    /\ errs' = errs \o [n \in 1..Len(bad) |->
                          Req(bad[n].op, Endpoint(bad[n].key),
                              IF bad[n].op = "write" THEN 0
                              ELSE IF bad[n].res = "not_found" THEN 404 ELSE 500,
                              bad[n].id, IF bad[n].op = "write" THEN "OSError" ELSE "HTTPError")]
    /\ runs' = IF starting THEN runs + 1 ELSE runs
    /\ hist' = IF ending THEN Append(hist, [prog |-> "download", rc |-> cl.exit_code])
               ELSE hist
    /\ UNCHANGED <<cfg, remote, nextId, assoc, proj_status, now, procs, pc, cache, loc,
                   exit_code, summary, attempted, last_req, wait_outcome, snap,
                   cleaner, aap>>

\* an exception that reaches main(): return 1
Aborted(cl) == [cl EXCEPT !.pos = "exit", !.exit_code = 1]

\* on to the next call; after the last one main() prints the summary: return 0
Continued(cl) ==
    IF cl.todo = << >> THEN [cl EXCEPT !.pos = "exit", !.exit_code = 0]
    ELSE [cl EXCEPT !.pos = "walk"]

Logged(cl, events) ==
    [cl EXCEPT !.log = @ \o events,
               !.faults = @ + Cardinality({n \in 1..Len(events) : events[n].res = "error"})]

\* download_workflow_job_templates up to its loop: the list request, the count
\* and the master list
Listed(cl, rem, out) ==
    LET workflow_list == FirstPage(rem["workflow_job_templates"])
        counted == [cl EXCEPT !.stats = DictSet(@, "workflow_job_templates",
                                                Len(workflow_list))]
    IN CASE out = "fetch_failed" ->
                Aborted(Logged(cl, <<Event("list", "workflows", 0, "error")>>))
         [] out = "write_failed" ->
                Aborted(Logged(counted, <<Event("list", "workflows", 0, "ok"),
                                          Event("write", "workflows", 0, "error")>>))
         [] OTHER ->
                Continued([Logged(counted, <<Event("list", "workflows", 0, "ok"),
                                             Event("write", "workflows", 0, "ok")>>)
                             EXCEPT !.files = @ \cup {[dir |-> "workflows", id |-> 0,
                                                       doc |-> workflow_list]},
                                    !.todo = [n \in 1..Len(workflow_list) |->
                                                 Call("workflows", workflow_list[n].id)]])

ColStart ==
    /\ col.pos \in {"idle", "exit"}
    /\ runs < MaxRuns
    /\ \E out \in {"ok"} \cup ColFails(col, {"fetch_failed", "write_failed"}) :
          \E cl \in {Listed([NewCollector EXCEPT !.faults = col.faults], remote, out)} : ColApply(cl)

\* the body of the loop over workflow_list for one workflow: its detail, its
\* nodes, the two documents, the mark and the job templates of its nodes. The
\* survey request and its document are left out: its failure is passed over.
WorkflowDone(cl, rem, out) ==
    LET wf_id == Head(cl.todo).id
        wf_detail == CHOOSE o \in rem["workflow_job_templates"] : o.id = wf_id
        nodes == FirstPage({n \in rem["workflow_nodes"] : n.workflow_job_template = wf_id})
        fetch(res) == Event("fetch", "workflows", wf_id, res)
        list(res) == Event("nodes", "workflows", wf_id, res)
        write(res) == Event("write", "workflows", wf_id, res)
        details == [dir |-> "workflows", id |-> wf_id, doc |-> wf_detail]
    IN CASE out = "fetch_failed" -> Aborted(Logged(cl, <<fetch("error")>>))
         [] out = "nodes_failed" -> Aborted(Logged(cl, <<fetch("ok"), list("error")>>))
         [] out = "write_failed" ->
                Aborted(Logged(cl, <<fetch("ok"), list("ok"), write("error")>>))
         [] out = "nodes_write_failed" ->
                Aborted([Logged(cl, <<fetch("ok"), list("ok"), write("ok"),
                                      Event("write_nodes", "workflows", wf_id, "error")>>)
                            EXCEPT !.files = @ \cup {details}])
         [] OTHER ->
                Continued([Logged(cl, <<fetch("ok"), list("ok"), write("ok"),
                                        Event("write_nodes", "workflows", wf_id, "ok")>>)
                             EXCEPT !.files = @ \cup {details,
                                                      [dir |-> "workflows_nodes", id |-> wf_id,
                                                       doc |-> nodes]},
                                    !.downloaded = Marked(@, "workflows", wf_id),
                                    !.todo = Refs(rem, "workflows", wf_detail)
                                             \o Tail(cl.todo)])

ColWorkflow ==
    /\ col.pos = "walk"
    /\ Head(col.todo).key = "workflows"
    /\ ~Visited(col, Head(col.todo))
    /\ \E out \in {"ok"} \cup ColFails(col, {"fetch_failed", "nodes_failed", "write_failed",
                                            "nodes_write_failed"}) :
          \E cl \in {WorkflowDone(col, remote, out)} : ColApply(cl)

\* "if <id> in self.downloaded[<key>]: return" (for a workflow: continue)
ColReturn ==
    /\ col.pos = "walk"
    /\ Visited(col, Head(col.todo))
    /\ \E cl \in {Continued([col EXCEPT !.todo = Tail(@)])} : ColApply(cl)

\* the download functions with the id marked before the document is written
DownloadedMarkedEarly(cl, rem, out) ==
    LET key == Head(cl.todo).key
        id == Head(cl.todo).id
        rest == [cl EXCEPT !.todo = Tail(@)]
        obj == CHOOSE o \in rem[Endpoint(key)] : o.id = id
        fetched == [rest EXCEPT !.stats = Counted(@, Endpoint(key)),
                                !.downloaded = Marked(@, key, id)]
    IN CASE out = "not_found" ->
                Continued(Logged(rest, <<Event("fetch", key, id, "not_found")>>))
         [] out = "fetch_failed" ->
                Continued(Logged(rest, <<Event("fetch", key, id, "error")>>))
         [] out = "write_failed" ->
                Continued(Logged(fetched, <<Event("fetch", key, id, "ok"),
                                            Event("write", key, id, "error")>>))
         [] OTHER ->
                Continued([Logged(fetched, <<Event("fetch", key, id, "ok"),
                                             Event("write", key, id, "ok")>>)
                             EXCEPT !.files = @ \cup {[dir |-> key, id |-> id,
                                                       doc |-> Document(key, obj)]},
                                    !.todo = Refs(rem, key, obj) \o Tail(cl.todo)])

\* download_job_template, download_project, download_inventory,
\* download_credential, download_execution_environment, download_organization
\* from the detail request on. The survey and inventory_sources requests and
\* their documents are left out: their failure is passed over.
Downloaded(cl, rem, out) ==
    LET key == Head(cl.todo).key
        id == Head(cl.todo).id
        rest == [cl EXCEPT !.todo = Tail(@)]
        obj == CHOOSE o \in rem[Endpoint(key)] : o.id = id
        fetched == [rest EXCEPT !.stats = Counted(@, Endpoint(key))]
    IN CASE out = "not_found" ->
                Continued(Logged(rest, <<Event("fetch", key, id, "not_found")>>))
         [] out = "fetch_failed" ->
                Continued(Logged(rest, <<Event("fetch", key, id, "error")>>))
         [] out = "write_failed" ->
                Continued(Logged(fetched, <<Event("fetch", key, id, "ok"),
                                            Event("write", key, id, "error")>>))
         [] OTHER ->
                Continued([Logged(fetched, <<Event("fetch", key, id, "ok"),
                                             Event("write", key, id, "ok")>>)
                             EXCEPT !.files = @ \cup {[dir |-> key, id |-> id,
                                                       doc |-> Document(key, obj)]},
                                    !.downloaded = Marked(@, key, id),
                                    !.todo = Refs(rem, key, obj) \o Tail(cl.todo)])

ColDownload ==
    /\ col.pos = "walk"
    /\ Head(col.todo).key # "workflows"
    /\ ~Visited(col, Head(col.todo))
    /\ LET there == \E o \in remote[Endpoint(Head(col.todo).key)] : o.id = Head(col.todo).id
       IN \E out \in (IF there THEN {"ok"} \cup ColFails(col, {"write_failed"})
                      ELSE {"not_found"}) \cup ColFails(col, {"fetch_failed"}) :
             \E cl \in {Downloaded(col, remote, out)} : ColApply(cl)

\* ------------------------------------------------------------ specification
\* nothing has run yet
AtRestWith(ps) ==
    /\ now = 0
    /\ errs = << >>
    /\ procs = ps
    /\ pc = [p \in Procs |-> IdlePos]
    /\ cache = [p \in Procs |-> NewCache]
    /\ loc = [p \in Procs |-> NoLocals]
    /\ exit_code = [p \in Procs |-> 0]
    /\ summary = [p \in Procs |-> FALSE]
    /\ attempted = [p \in Procs |-> {}]
    /\ last_req = [p \in Procs |-> NoReq]
    /\ wait_outcome = [p \in Procs |-> "none"]
    /\ runs = 0
    /\ hist = << >>
    /\ cleaner = NewCleaner
    /\ aap = NewAAP
    /\ col = NewCollector

\* one instance of the Provisioner
AtRest == AtRestWith({1})

\* the target as the run finds it
On(t) ==
    /\ remote = t.remote
    /\ nextId = t.nextId
    /\ assoc = t.assoc
    /\ proj_status = t.proj_status
    /\ snap = << [remote |-> t.remote, assoc |-> t.assoc] >>

Init ==
    /\ \E sc \in Scenarios : cfg = sc[1] /\ On(sc[2])
    /\ AtRest

Next ==
    \/ \E p \in procs : ProvStart(p)
    \/ \E p \in procs : EnsureFind(p)
    \/ \E p \in procs : EnsureCreate(p)
    \/ \E p \in procs : ResolveType(p)
    \/ \E p \in procs : UserOrgAssoc(p)
    \/ \E p \in procs : UserTeamAssoc(p)
    \/ \E p \in procs : GroupHostAssoc(p)
    \/ \E p \in procs : JtCredAssoc(p)
    \/ \E p \in procs : NodeList(p)
    \/ \E p \in procs : NodeCreate(p)
    \/ \E p \in procs : EdgeAssoc(p)
    \/ \E p \in procs : RoleDetail(p)
    \/ \E p \in procs : RoleGrant(p)
    \/ \E p \in procs : WaitEnter(p)
    \/ \E p \in procs : WaitPoll(p)
    \/ \E p \in procs : WaitSleep(p)
    \/ \E p \in procs : WaitReturn(p)
    \/ CleanStart
    \/ CleanFind
    \/ CleanDelete

Spec == Init /\ [][Next]_vars

\* one instance of the Provisioner, or two that nothing keeps from running at
\* the same time against the same target
InitRace ==
    /\ cfg = CfgRace
    /\ On(TargetEmpty)
    /\ \E ps \in {{1}, {1, 2}} : AtRestWith(ps)

NextRace ==
    \/ \E p \in procs : ProvStart(p)
    \/ \E p \in procs : EnsureFind(p)
    \/ \E p \in procs : EnsureCreate(p)
    \/ \E p \in procs : WaitEnter(p)
    \/ \E p \in procs : WaitReturn(p)

SpecRace == InitRace /\ [][NextRace]_vars

\* the process of the instance is terminated from outside between two requests:
\* nothing of main() runs any more, what the process held in memory is gone and
\* the remote stays as the requests left it
ProvKill(p) ==
    /\ pc[p].step \notin {"idle", "exit"}
    /\ pc' = [pc EXCEPT ![p] = ExitPos]
    /\ cache' = [cache EXCEPT ![p] = NewCache]
    /\ loc' = [loc EXCEPT ![p] = NoLocals]
    /\ attempted' = [attempted EXCEPT ![p] = {}]
    /\ last_req' = [last_req EXCEPT ![p] = NoReq]
    /\ wait_outcome' = [wait_outcome EXCEPT ![p] = "none"]
    /\ now' = 0
    /\ exit_code' = [exit_code EXCEPT ![p] = -15]
    /\ hist' = Append(hist, [prog |-> "populate", rc |-> -15])
    /\ snap' = Append(snap, [remote |-> remote, assoc |-> assoc])
    /\ UNCHANGED <<cfg, remote, nextId, assoc, proj_status, errs, procs,
                   summary, runs, cleaner, aap, col>>

\* the target set up again as it was, after one run from the start to the end
\* with every request answered successfully: what that run left stays in snap[2]
\* for what the runs to come leave to be compared with
Restore ==
    /\ hist = << [prog |-> "populate", rc |-> 0] >>
    /\ errs = << >>
    /\ runs = 1
    /\ remote' = snap[1].remote
    /\ assoc' = snap[1].assoc
    /\ nextId' = TargetEmpty.nextId
    /\ proj_status' = TargetEmpty.proj_status
    /\ snap' = snap
    /\ runs' = 0
    /\ now' = 0
    /\ pc' = [p \in Procs |-> IdlePos]
    /\ cache' = [p \in Procs |-> NewCache]
    /\ loc' = [p \in Procs |-> NoLocals]
    /\ exit_code' = [p \in Procs |-> 0]
    /\ summary' = [p \in Procs |-> FALSE]
    /\ attempted' = [p \in Procs |-> {}]
    /\ last_req' = [p \in Procs |-> NoReq]
    /\ wait_outcome' = [p \in Procs |-> "none"]
    /\ UNCHANGED <<cfg, errs, procs, hist, cleaner, aap, col>>

\* one instance on an empty target
InitResume ==
    /\ cfg \in {CfgBasic, CfgScoped}
    /\ On(TargetEmpty)
    /\ AtRest

\* the first run is the one the later ones are compared with: it is left to run
\* to its end, the runs after it may be terminated at any request
NextResume ==
    \/ \E p \in procs : ProvStart(p)
    \/ \E p \in procs : EnsureFind(p)
    \/ \E p \in procs : EnsureCreate(p)
    \/ \E p \in procs : ResolveType(p)
    \/ \E p \in procs : UserOrgAssoc(p)
    \/ \E p \in procs : UserTeamAssoc(p)
    \/ \E p \in procs : GroupHostAssoc(p)
    \/ \E p \in procs : JtCredAssoc(p)
    \/ \E p \in procs : NodeList(p)
    \/ \E p \in procs : NodeCreate(p)
    \/ \E p \in procs : EdgeAssoc(p)
    \/ \E p \in procs : RoleDetail(p)
    \/ \E p \in procs : RoleGrant(p)
    \/ \E p \in procs : WaitEnter(p)
    \/ \E p \in procs : WaitPoll(p)
    \/ \E p \in procs : WaitSleep(p)
    \/ \E p \in procs : WaitReturn(p)
    \/ \E p \in procs : hist # << >> /\ ProvKill(p)
    \/ Restore

SpecResume == InitResume /\ [][NextResume]_vars

\* the protected-name Decommissioner at work on a controller
InitAAP ==
    /\ cfg = << >>
    /\ \E t \in AapTargets : On(t)
    /\ AtRest

NextAAP ==
    \/ AapStart
    \/ AapList
    \/ AapSkip
    \/ AapDelete

SpecAAP == InitAAP /\ [][NextAAP]_vars

\* the Collector at work on a controller
InitCollect ==
    /\ cfg = << >>
    /\ \E g \in Graphs : On(g)
    /\ AtRest

NextCollect ==
    \/ ColStart
    \/ ColWorkflow
    \/ ColReturn
    \/ ColDownload

SpecCollect == InitCollect /\ [][NextCollect]_vars

\* the script runs to its end: nothing but an answer of the remote is waited for
SpecCollectLive == SpecCollect /\ WF_vars(NextCollect)


\* ------------------------------------------------------------------ properties
\* every declared instance of the kinds main() walks through
AllDeclared(c) == UNION {{<<kind, i>> : i \in 1..Len(c[kind])} : kind \in Range(ProvOrder)}

\* the fields that scope the name of an object of a kind
ScopeFields(kind) ==
    CASE kind = "teams" -> {"organization"}
      [] kind \in {"hosts", "groups"} -> {"inventory"}
      [] OTHER -> {}

\* no two objects of a kind with one ResourceKey; a workflow node is known to the
\* remote by its workflow and the job template it runs
NoDuplicateKeys(rem) ==
    /\ \A kind \in Kinds \ {"workflow_nodes"} : \A a, b \in rem[kind] :
          (/\ NameOf(kind, a) = NameOf(kind, b)
           /\ \A f \in ScopeFields(kind) : a[f] = b[f]) => a = b
    /\ \A a, b \in rem["workflow_nodes"] :
          (/\ a.workflow_job_template = b.workflow_job_template
           /\ a.unified_job_template = b.unified_job_template) => a = b

Populated == [prog |-> "populate", rc |-> 0]

\* two complete Provisioner runs on an empty target, no request answered with an error
TwoCleanRuns ==
    /\ hist = <<Populated, Populated>>
    /\ errs = << >>
    /\ snap[1].remote = TargetEmpty.remote

\* C1: after two Provisioner runs in succession on an empty target, every request
\* answered successfully, the remote holds the same resources of every kind as
\* after the first run, and after either run no two resources of a kind share a
\* ResourceKey.
C1_Idempotent ==
    TwoCleanRuns =>
        /\ \A kind \in Kinds : snap[3].remote[kind] = snap[2].remote[kind]
        /\ NoDuplicateKeys(snap[2].remote)
        /\ NoDuplicateKeys(snap[3].remote)

\* the references of a declared instance to resources of other kinds, each with
\* the cache and the key it is resolved through
Ref(kind, ch, key) == [kind |-> kind, cache |-> ch, key |-> key]

RefsOf(c, step, i) ==
    LET inst == c[step][i]
        org == {Ref("organizations", "org_ids", inst.organization)}
    IN CASE step = "teams" -> org
         [] step = "users" ->
                org \cup {Ref("teams", "team_ids", CacheKey(inst.organization, t)) :
                             t \in Range(Get(inst, "teams", << >>))}
         [] step = "credentials" ->
                org \cup {Ref("credential_types", "cred_type_ids", inst.credential_type)}
         [] step = "projects" ->
                org \cup (IF Get(inst, "credential", "") # ""
                          THEN {Ref("credentials", "cred_ids", inst.credential)} ELSE {})
         [] step = "inventories" -> org
         [] step = "job_templates" ->
                {Ref("projects", "project_ids", inst.project),
                 Ref("inventories", "inventory_ids", inst.inventory)}
                \cup {Ref("credentials", "cred_ids", cr) :
                         cr \in Range(Get(inst, "credentials", << >>))}
         [] step = "workflow_job_templates" ->
                org \cup {Ref("job_templates", "jt_ids", nd.job_template) :
                             nd \in Range(Get(inst, "nodes", << >>))}
         [] step = "role_assignments" ->
                IF inst.object_type \in {"job_templates", "workflow_job_templates",
                                         "inventories", "projects", "credentials"}
                THEN {Ref(inst.object_type,
                          CASE inst.object_type = "job_templates" -> "jt_ids"
                            [] inst.object_type = "workflow_job_templates" -> "wfjt_ids"
                            [] inst.object_type = "inventories" -> "inventory_ids"
                            [] inst.object_type = "projects" -> "project_ids"
                            [] inst.object_type = "credentials" -> "cred_ids",
                          inst.object_name)}
                ELSE {}
         [] OTHER -> {}

\* the keys under which the declared instances of a kind are cached
DeclaredKeys(c, kind) ==
    {IF kind = "teams" THEN CacheKey(c[kind][i].organization, c[kind][i].name)
     ELSE c[kind][i].name : i \in 1..Len(c[kind])}

\* the creator of a kind has returned in the run of p
CreatorReturned(p, kind) ==
    /\ StepIndex(kind) < StepIndex(pc[p].step)
    /\ \A i \in 1..Len(cfg[kind]) : <<kind, i>> \in attempted[p]

\* C2: while the Provisioner is at an instance of a kind A (its payload is about
\* to be built or has been built), every declared instance of a kind B that the
\* instance references belongs to a creator that has returned, and B's key is in
\* the Reference Cache; so are the declared hosts a group names (Group->Host) and
\* the declared team a role assignment names.
C2_OrderInvariant ==
    \A p \in procs : pc[p].step \in Range(ProvOrder) =>
        /\ \A r \in RefsOf(cfg, pc[p].step, pc[p].i) :
              r.key \in DeclaredKeys(cfg, r.kind) =>
                  /\ CreatorReturned(p, r.kind)
                  /\ DictHas(cache[p][r.cache], r.key)
        /\ pc[p].ph \in {"group_find", "group_create", "group_host"} =>
              \A h \in Range(Get(SiteInst(cfg, pc[p]), "hosts", << >>)) :
                  (\E d \in Range(Get(cfg.inventories[pc[p].i], "hosts", << >>)) :
                      d.name = h)
                  => DictHas(cache[p].host_ids, CacheKey(cfg.inventories[pc[p].i].name, h))
        /\ pc[p].step = "role_assignments" =>
              ((\E t \in Range(cfg.teams) : t.name = cfg.role_assignments[pc[p].i].team)
               => /\ CreatorReturned(p, "teams")
                  /\ TeamIdByName(cache[p].team_ids,
                                  cfg.role_assignments[pc[p].i].team) # 0)

\* the payload of a job template is built from a cached project and inventory
C2_Witness ==
    /\ pc[1].step = "job_templates" /\ pc[1].ph = "create"
    /\ DictHas(cache[1].project_ids, cfg.job_templates[pc[1].i].project)
    /\ DictHas(cache[1].inventory_ids, cfg.job_templates[pc[1].i].inventory)
    /\ <<"projects", 1>> \in attempted[1]

ReverseSeq(seq) == [n \in 1..Len(seq) |-> seq[Len(seq) + 1 - n]]

IsPrefix(a, b) == Len(a) <= Len(b) /\ a = SubSeq(b, 1, Len(a))

\* C3 as stated: the kinds the Decommissioner has processed are, in order, the
\* first kinds of the exact reverse of the Provisioner's sequence of kinds.
C3_ExactReverse == IsPrefix(cleaner.kinds, ReverseSeq(ProvOrder))

\* a kind the Decommissioner has a deleter for: role assignments have none
HasDeleter(kind) == kind # "role_assignments"

\* C3: the kinds the Decommissioner processes are, in order, the reverse of the
\* Provisioner's sequence of kinds with the role assignments left out; so when it
\* deletes a resource of kind B, every kind with a deleter that the Provisioner
\* processes after B has already been processed.
C3_ReverseWithoutRoles ==
    /\ IsPrefix(cleaner.kinds, ReverseSeq(SelectSeq(ProvOrder, HasDeleter)))
    /\ (cleaner.pos.step = "exit" /\ cleaner.exit_code = 0 /\ cleaner.summary)
           => cleaner.kinds = ReverseSeq(SelectSeq(ProvOrder, HasDeleter))
    /\ cleaner.pos.ph = "delete" =>
          \A n \in 1..Len(ProvOrder) :
              (n > StepIndex(cleaner.pos.step) /\ HasDeleter(ProvOrder[n]))
              => \E k \in 1..(Len(cleaner.kinds) - 1) : cleaner.kinds[k] = ProvOrder[n]

\* the Decommissioner deletes an organization after every other kind was processed
C3_Witness ==
    /\ cleaner.pos.step = "organizations" /\ cleaner.pos.ph = "delete"
    /\ Len(cleaner.kinds) = 9
    /\ cleaner.deleted >= 8

FindPhases == {"find", "host_find", "group_find"}

\* the lookup of the upsert p is at has just found an object
FoundExisting(p) ==
    /\ pc[p].step \in Range(ProvOrder) /\ pc[p].ph \in FindPhases
    /\ last_req'[p].op = "find" /\ last_req'[p].id # 0
    /\ pc'[p] # pc[p]

\* C4: when the lookup of an upsert finds a resource, that resource's id is what
\* the upsert returns (it is cached under the instance's key), no create request
\* follows for the instance, and the remote is as it was: every field of every
\* remote resource keeps its value, whatever the candidate payload.
C4_ExistingUnchanged ==
    [][\A p \in procs : FoundExisting(p) =>
          /\ remote' = remote /\ assoc' = assoc /\ nextId' = nextId
          /\ \E o \in remote[SiteKind(pc[p])] :
                /\ o.id = last_req'[p].id
                /\ NameOf(SiteKind(pc[p]), o) = SiteName(cfg, pc[p])
          /\ DictAt(cache'[p][SiteCache(pc[p])], SiteCacheKey(cfg, pc[p])) = last_req'[p].id
          /\ ~(pc'[p].ph \in {"create", "host_create", "group_create"}
               /\ pc'[p].step = pc[p].step /\ pc'[p].i = pc[p].i /\ pc'[p].j = pc[p].j)
      ]_vars

\* the declared organization was found with another description than the
\* declared one, and has kept it
C4_Witness ==
    /\ pc[1].step \in {"teams", "users"}
    /\ DictGet(cache[1].org_ids, "Org-A") = 1
    /\ \E o \in remote["organizations"] :
          /\ o.id = 1 /\ o.name = cfg.organizations[1].name
          /\ o.description # cfg.organizations[1].description
    /\ nextId["organizations"] = 2
    /\ Len(hist) = 0

\* the run of p has ended on the request it issued last
EndedOn(p, ops) == pc[p].step = "exit" /\ last_req[p].op \in ops

\* C5: a lookup answered with an error that is not 404, or a create request
\* answered with a non-2xx status, does not end the run: when the run ends,
\* every later declared instance of the kind and of the later kinds has been
\* processed.
C5_FailedUpsertContinues ==
    \A p \in procs :
        (EndedOn(p, {"find", "create"}) /\ last_req[p].status >= 400)
        => AllDeclared(cfg) \subseteq attempted[p]

\* C6: a declared instance that names a dependency which is not in the Reference
\* Cache is not created, no exception leaves the loop of its kind, and the
\* Provisioner goes on with the next declared instance: the run does not end
\* with a KeyError or ValueError, declared instances left unprocessed.
C6_ResolutionFailureContinues ==
    \A p \in procs :
        last_req[p].exc \in {"KeyError", "ValueError"}
        => /\ pc[p].step # "exit"
           /\ exit_code[p] = 0

\* C7: an association request for a user in an organization, a user in a team or
\* a host in a group that is answered with the conflict response "already a
\* member" counts as success: no exception, and the run goes on.
C7_ConflictIsSuccess ==
    \A p \in procs :
        (/\ last_req[p].op = "assoc"
         /\ last_req[p].kind \in {"org_users", "team_users", "group_hosts"}
         /\ last_req[p].status = 409)
        => /\ last_req[p].exc = ""
           /\ pc[p].step # "exit"

\* C8: the waiter returns in the Timed-out outcome no later than one poll
\* interval after its deadline.
C8_TimedOutByDeadline ==
    \A p \in procs :
        (pc[p].step = "wait" /\ pc[p].ph = "return" /\ loc[p].pending # {})
        => now <= loc[p].deadline + PollInterval

\* p takes a step inside the waiter
WaiterStep(p) ==
    /\ pc[p].step = "wait" /\ pc[p].ph # "enter"
    /\ pc'[p] # pc[p] \/ loc'[p] # loc[p]

\* C9: inside the waiter the tracked set only shrinks; an id is polled only while
\* it is tracked and once in a round; an id that reports a status outside the
\* in-progress set is not carried into the next round, whatever that status is;
\* a status answer never ends the run, and when the waiter returns the
\* Provisioner goes on to the inventories and the later kinds, also when a
\* project has failed.
C9_TerminalStates ==
    [][\A p \in procs : WaiterStep(p) =>
          /\ pc'[p].step = "wait" => loc'[p].pending \subseteq loc[p].pending
          /\ pc[p].ph = "poll" =>
                /\ last_req'[p].op = "poll"
                /\ last_req'[p].id \in loc[p].todo
                /\ loc[p].todo \subseteq loc[p].pending
                /\ last_req'[p].status = 200 =>
                      /\ last_req'[p].id \notin loc'[p].todo
                      /\ proj_status'[last_req'[p].id] \notin InProgress
                             => last_req'[p].id \notin loc'[p].still_pending
                      /\ pc'[p].step = "wait"
          /\ (pc[p].ph = "round_end" /\ pc'[p].step = "wait") =>
                /\ loc'[p].pending = loc[p].still_pending
                /\ \A pid \in loc[p].pending \ loc'[p].pending :
                      proj_status[pid] \notin InProgress
          /\ pc[p].ph = "return" =>
                /\ pc'[p] = EnterStep(cfg, cache[p], StepIndex("inventories"))
                /\ Len(cfg.inventories) > 0 => pc'[p].step = "inventories"
      ]_vars

\* a tracked project has failed, the waiter has returned and the Provisioner is
\* at the inventories
C9_Witness ==
    /\ pc[1].step = "inventories"
    /\ wait_outcome[1] = "completed"
    /\ \E pid \in DictValues(cache[1].project_ids) : proj_status[pid] = "failed"

\* the name the Decommissioner is looking up is the name of no remote resource
AbsentLookup ==
    /\ cleaner.pos.step \in Range(CleanOrder) /\ cleaner.pos.ph = "find"
    /\ Matches(remote, cleaner.pos.step,
               CleanNames(cfg, cleaner.pos.step)[cleaner.pos.i], NoScope) = {}
    /\ cleaner' # cleaner
    /\ cleaner'.req.status = 200

\* C10: a declared name (or username) whose lookup returns no remote resource is
\* counted as skipped; no delete request is issued for it, the deleted and failed
\* counts and the remote are as before, and no exception is raised.
C10_AbsentSkipped ==
    [][AbsentLookup =>
          /\ cleaner'.skipped = cleaner.skipped + 1
          /\ cleaner'.deleted = cleaner.deleted
          /\ cleaner'.failed = cleaner.failed
          /\ cleaner'.req.op = "find" /\ cleaner'.req.exc = ""
          /\ cleaner'.pos = CleanNext(cfg, cleaner.pos)
          /\ cleaner'.pos.ph # "delete"
          /\ remote' = remote /\ assoc' = assoc
          /\ cleaner'.pos.step = "exit" => cleaner'.exit_code = 0
      ]_vars

\* the Decommissioner has skipped a name the remote did not have
C10_Witness ==
    /\ cleaner.req.op = "find" /\ cleaner.req.status = 200 /\ cleaner.req.id = 0
    /\ cleaner.skipped >= 1
    /\ cleaner.pos.step \in Range(CleanOrder)

\* the remote answers a delete request of the Decommissioner with st
DeleteAnswered(st) ==
    /\ cleaner.pos.step \in Range(CleanOrder) /\ cleaner.pos.ph = "delete"
    /\ cleaner' # cleaner
    /\ cleaner'.req.op = "delete" /\ cleaner'.req.status = st

\* C11: a delete request answered with "not found" is counted as skipped, not as
\* failed, and raises no exception.
C11_NotFoundSkipped ==
    [][DeleteAnswered(404) =>
          /\ cleaner'.skipped = cleaner.skipped + 1
          /\ cleaner'.failed = cleaner.failed
          /\ cleaner'.deleted = cleaner.deleted
          /\ cleaner'.req.exc = ""
      ]_vars

\* C12: a delete request answered with an error that is not "not found" adds one
\* to the failed count and the Decommissioner goes on with the next resource.
C12_DeleteErrorContinues ==
    [][DeleteAnswered(500) =>
          /\ cleaner'.failed = cleaner.failed + 1
          /\ cleaner'.skipped = cleaner.skipped
          /\ cleaner'.deleted = cleaner.deleted
          /\ cleaner'.pos = CleanNext(cfg, cleaner.pos)
      ]_vars

\* C14: a run that passed the connectivity check ends with exit code 0, also
\* when requests for single resources failed on the way.
C14_PartialFailureExitsZero ==
    /\ \A p \in procs :
          (pc[p].step = "exit" /\ last_req[p].op # "ping") => exit_code[p] = 0
    /\ (cleaner.pos.step = "exit" /\ cleaner.req.op # "ping") => cleaner.exit_code = 0

\* this step starts a run and its connectivity check fails
PingFailed ==
    /\ runs' = runs + 1
    /\ Len(errs') = Len(errs) + 1
    /\ errs'[Len(errs')].op = "ping"

\* C15: when the connectivity check fails, on a connection error or on an error
\* status, main() returns 1 in that same step: no request for a resource is
\* issued, nothing is created or deleted, no summary is printed.
C15_PingFailureEndsRun ==
    [][PingFailed =>
          /\ Len(hist') = Len(hist) + 1
          /\ hist'[Len(hist')].rc = 1
          /\ remote' = remote /\ assoc' = assoc /\ nextId' = nextId
          /\ hist'[Len(hist')].prog = "populate" =>
                \E p \in procs :
                    /\ last_req'[p] = errs'[Len(errs')]
                    /\ pc'[p] = ExitPos
                    /\ exit_code'[p] = 1
                    /\ attempted'[p] = {}
                    /\ ~summary'[p]
          /\ hist'[Len(hist')].prog = "cleanup" =>
                /\ cleaner'.req = errs'[Len(errs')]
                /\ cleaner'.pos.step = "exit"
                /\ cleaner'.exit_code = 1
                /\ cleaner'.deleted + cleaner'.skipped + cleaner'.failed = 0
                /\ cleaner'.kinds = << >>
                /\ ~cleaner'.summary
      ]_vars

\* a Provisioner run has ended on a connection error of its connectivity check
C15_Witness ==
    /\ pc[1] = ExitPos
    /\ last_req[1].op = "ping" /\ last_req[1].exc = "ConnectionError"
    /\ exit_code[1] = 1
    /\ hist # << >>

\* an object of this kind is one the protected-name Decommissioner must keep
IsProtected(kind, obj) ==
    \/ obj.managed
    \/ \E n \in 1..Len(AapOrder) :
          AapOrder[n].endpoint = kind /\ obj.name \in AapOrder[n].skip_names

\* the loop of delete_all_non_default takes a protected object
AtProtected ==
    /\ aap.pos.step = "objects"
    /\ IsProtected(AapOrder[aap.pos.k].endpoint, aap.objects[aap.pos.i])
    /\ aap' # aap

\* C13: the protected-name Decommissioner issues no delete request for an object
\* whose name is in the protected set of its kind or whose managed flag is set:
\* the step that takes such an object adds one to skipped and nothing else, and
\* every protected object of the remote is still there after every step.
C13_ProtectedKept ==
    [][/\ \A kind \in AapKinds : \A o \in remote[kind] :
             IsProtected(kind, o) => o \in remote'[kind]
       /\ \A a \in aap'.asked \ aap.asked :
             \E o \in remote[a[1]] : o.id = a[2] /\ ~IsProtected(a[1], o)
       /\ AtProtected =>
             /\ aap'.skipped = aap.skipped + 1
             /\ aap'.deleted = aap.deleted /\ aap'.failed = aap.failed
             /\ aap'.asked = aap.asked
             /\ aap'.req.op = "none"
             /\ remote' = remote
      ]_vars

\* a run on the installed controller has ended: the six protected objects were
\* skipped, the seven others deleted
C13_Witness ==
    /\ aap.pos.step = "exit" /\ aap.exit_code = 0
    /\ aap.skipped = 6 /\ aap.deleted = 7
    /\ \A kind \in AapKinds : \A o \in remote[kind] : IsProtected(kind, o)
    /\ \E o \in remote["credentials"] : o.managed

\* how often a run with this log has seen this event
TimesIn(log, op, key, id, res) ==
    Cardinality({n \in 1..Len(log) : log[n] = Event(op, key, id, res)})

Times(op, key, id, res) == TimesIn(col.log, op, key, id, res)

\* the (key, id) pairs of the requests and writes in a log
AskedIn(log) == {<<log[n].key, log[n].id>> : n \in 1..Len(log)}

\* the events this step adds to the log of the run
NewEvents ==
    IF col'.log = col.log THEN {}
    ELSE LET from == IF col.pos \in {"idle", "exit"} THEN 1 ELSE Len(col.log) + 1
         IN {col'.log[n] : n \in from..Len(col'.log)}

Recurses ==
    /\ col.pos = "walk" /\ col'.pos = "walk"
    /\ Len(col'.todo) >= Len(col.todo)

\* C17: the traversal of the Collector ends, on every reference graph and also on
\* one with a reference cycle: every run that has begun its traversal reaches the
\* end of main(). A detail is requested only for an id that is not in the
\* VisitedSet of its kind, and the resource is in the VisitedSet by the time the
\* traversal goes into its references.
C17_Terminates ==
    /\ (col.pos = "walk") ~> (col.pos = "exit")
    /\ [][/\ \A e \in NewEvents :
                (e.op = "fetch" /\ col.pos = "walk") => e.id \notin col.downloaded[e.key]
          /\ Recurses => Head(col.todo).id \in col'.downloaded[Head(col.todo).key]
         ]_vars

\* a run has ended on a graph in which an organization and an execution
\* environment refer to each other, both collected
C17_Witness ==
    /\ col.pos = "exit" /\ col.exit_code = 0
    /\ \E org \in remote["organizations"] : \E ee \in remote["execution_environments"] :
          /\ org.default_environment = ee.id /\ ee.organization = org.id
          /\ org.id \in col.downloaded["organizations"]
          /\ ee.id \in col.downloaded["execution_environments"]

\* the objects of a kind with these ids
Objects(kind, ids) == {o \in remote[kind] : o.id \in ids}

\* the resources the remote holds that a root workflow leads to through the
\* reference fields: workflow node -> job template; job template -> project,
\* inventory, execution environment, credentials; project -> SCM credential;
\* project, inventory, credential, execution environment -> organization
Reachable ==
    LET wfs == {w.id : w \in remote["workflow_job_templates"]}
        jts == Objects("job_templates",
                       {n.unified_job_template : n \in
                           {n \in remote["workflow_nodes"] :
                               /\ n.workflow_job_template \in wfs
                               /\ n.related = Url("job_templates", n.unified_job_template)}})
        projects == Objects("projects", {jt.project : jt \in jts})
        inventories == Objects("inventories", {jt.inventory : jt \in jts})
        ees == Objects("execution_environments", {jt.execution_environment : jt \in jts})
        credentials == Objects("credentials",
                               UNION {Range(jt.credentials) : jt \in jts}
                               \cup {q.credential : q \in projects})
        orgs == Objects("organizations",
                        {q.organization : q \in projects \cup inventories \cup ees
                                                 \cup credentials})
    IN {<<"workflows", id>> : id \in wfs}
       \cup {<<"job_templates", o.id>> : o \in jts}
       \cup {<<"projects", o.id>> : o \in projects}
       \cup {<<"inventories", o.id>> : o \in inventories}
       \cup {<<"execution_environments", o.id>> : o \in ees}
       \cup {<<"credentials", o.id>> : o \in credentials}
       \cup {<<"organizations", o.id>> : o \in orgs}

\* a run has ended and every request and every write of it succeeded
EndedWithoutFailure ==
    /\ col.pos = "exit" /\ col.exit_code = 0
    /\ \A n \in 1..Len(col.log) : col.log[n].res = "ok"

\* C18: when every fetch of a run has succeeded, at its end every resource that
\* a root workflow leads to through the reference fields is in the VisitedSet of
\* its kind and has a persisted document.
C18_ClosureComplete ==
    EndedWithoutFailure =>
       \A r \in Reachable :
          /\ r[2] \in col.downloaded[r[1]]
          /\ \E f \in col.files : f.dir = r[1] /\ f.id = r[2]

\* the same for a controller whose workflow list and node lists fit one page
C18_OnePage ==
    (/\ Cardinality(remote["workflow_job_templates"]) <= PageSize
     /\ \A w \in remote["workflow_job_templates"] :
           Cardinality({n \in remote["workflow_nodes"] : n.workflow_job_template = w.id})
              <= PageSize)
    => C18_ClosureComplete

\* C19: every credential document the Collector has persisted has the fixed
\* placeholder as its inputs, and none has the inputs the remote returned for
\* that or any other credential; the rest of the document is what the remote
\* returned.
C19_Redacted ==
    \A f \in col.files :
        f.dir = "credentials" =>
           /\ f.doc.inputs = Placeholder
           /\ \A c \in remote["credentials"] : f.doc.inputs # c.inputs
           /\ \E c \in remote["credentials"] :
                 c.id = f.id /\ f.doc = [c EXCEPT !.inputs = Placeholder]

\* the documents of both credentials are on disk; the remote returned inputs
\* with a user name and a password for each
C19_Witness ==
    /\ {f.id : f \in {g \in col.files : g.dir = "credentials"}} = {1, 2}
    /\ \A c \in remote["credentials"] : c.inputs = Inputs(c.id) /\ c.inputs # Placeholder

\* a run has ended; requests of these kinds for a detail or a node list failed in
\* it, and nothing else did
EndedAfterFailedFetch(keys) ==
    /\ col.pos = "exit"
    /\ \E n \in 1..Len(col.log) :
          /\ col.log[n].op \in {"fetch", "nodes"} /\ col.log[n].key \in keys
          /\ col.log[n].res # "ok"
    /\ \A n \in 1..Len(col.log) :
          \/ col.log[n].res = "ok"
          \/ col.log[n].op \in {"fetch", "nodes"} /\ col.log[n].key \in keys

\* the run went through all its calls: every workflow of the list was taken up
\* and main() returned 0
RanToTheEnd ==
    /\ col.exit_code = 0 /\ col.summary
    /\ col.todo = << >>
    /\ \A w \in Range(FirstPage(remote["workflow_job_templates"])) :
          <<"workflows", w.id>> \in AskedIn(col.log)

\* C20: a failed fetch for one resource, be it the detail or the node list of a
\* workflow or the detail of a job template, project, inventory, credential,
\* execution environment or organization, does not abort the run: the other
\* references of the same parent and the later workflows are still traversed.
C20_FailureIsolated == EndedAfterFailedFetch(ColKeys) => RanToTheEnd

\* the same for the resources below the workflows
C20_DependencyFailureIsolated == EndedAfterFailedFetch(ColKeys \ {"workflows"}) => RanToTheEnd

\* ---------------------------------------------------------------- edge wiring
\* the ids the remote gives the objects of a kind with a name
RemoteIds(rem, kind, name) == {o.id : o \in {x \in rem[kind] : NameOf(kind, x) = name}}

\* the remote nodes of a workflow that run the job template of a declared node
NodeIdsOf(rem, wf, nd) ==
    {n.id : n \in {x \in rem["workflow_nodes"] :
                     /\ x.workflow_job_template \in
                            RemoteIds(rem, "workflow_job_templates", wf.name)
                     /\ x.unified_job_template \in
                            RemoteIds(rem, "job_templates", nd.job_template)}}

\* the successors of a remote node along an edge type
Successors(links, edge_type, src) ==
    {l[3] : l \in {x \in links : x[1] = edge_type /\ x[2] = src}}

\* the declared nodes of a workflow with an identifier
DeclaredNodes(wf, ident) ==
    {nd \in Range(Get(wf, "nodes", << >>)) : nd.identifier = ident}

\* the nodes of every declared workflow run job templates of their own
OwnTemplates(c) ==
    \A w \in 1..Len(c.workflow_job_templates) :
        LET nodes == Get(c.workflow_job_templates[w], "nodes", << >>)
        IN \A a, b \in 1..Len(nodes) :
               nodes[a].job_template = nodes[b].job_template => a = b

\* the k-th finished run is the first of the Provisioner, it ended with 0, it met
\* no node on the target and no request of any run was answered with an error
FirstProvisioning(k) ==
    /\ k \in 1..Len(hist)
    /\ hist[k] = Populated
    /\ \A n \in 1..(k - 1) : hist[n].prog # "populate"
    /\ snap[k].remote["workflow_nodes"] = {}
    /\ errs = << >>

Wired(s, wf, nd) ==
    /\ Cardinality(NodeIdsOf(s.remote, wf, nd)) = 1
    /\ \A src \in NodeIdsOf(s.remote, wf, nd) : \A e \in 1..Len(EdgeTypes) :
           Successors(s.assoc, EdgeTypes[e], src) =
               UNION {NodeIdsOf(s.remote, wf, t) :
                        t \in UNION {DeclaredNodes(wf, ident) :
                                        ident \in Range(Get(nd, EdgeTypes[e], << >>))}}

\* C21: when a workflow whose nodes run job templates of their own is provisioned
\* on a target where it has no nodes yet, every request answered successfully,
\* then after both passes each declared node has one remote node, and the remote
\* successors of that node along success, failure and always are exactly the
\* remote nodes of the targets declared for that edge type: for N1 with the single
\* success edge N1 -> N2, the success successors are {N2's id} and the failure and
\* always successors are empty.
C21_EdgesWired ==
    \A k \in 1..Len(hist) :
        (FirstProvisioning(k) /\ OwnTemplates(cfg)) =>
            \A w \in 1..Len(cfg.workflow_job_templates) :
                \A nd \in Range(Get(cfg.workflow_job_templates[w], "nodes", << >>)) :
                    Wired(snap[k + 1], cfg.workflow_job_templates[w], nd)

\* the first provisioning of W1 has ended: N1's node has N2's node as its only
\* successor, along success
C21_Witness ==
    /\ cfg = CfgBasic
    /\ FirstProvisioning(1)
    /\ LET wf == cfg.workflow_job_templates[1]
           n1 == NodeIdsOf(snap[2].remote, wf, wf.nodes[1])
           n2 == NodeIdsOf(snap[2].remote, wf, wf.nodes[2])
       IN /\ Cardinality(n1) = 1 /\ Cardinality(n2) = 1
          /\ \A src \in n1 :
                 /\ Successors(snap[2].assoc, "success_nodes", src) = n2
                 /\ Successors(snap[2].assoc, "failure_nodes", src) = {}
                 /\ Successors(snap[2].assoc, "always_nodes", src) = {}

\* ------------------------------------------------------- the two passes
InEdgePass(p) == pc[p].step = "workflow_job_templates" /\ pc[p].ph = "edge"

\* pass 1 has been over every declared node of the workflow at hand: each node
\* whose job template the run knows is in node_id_map
PassOneDone(p) ==
    \A nd \in Range(Get(cfg.workflow_job_templates[pc[p].i], "nodes", << >>)) :
        DictGet(cache[p].jt_ids, nd.job_template) # 0 =>
            DictGet(loc[p].node_id_map, nd.identifier) # 0

\* the step is an edge association request of p
EdgeRequest(p) ==
    /\ pc'[p] # pc[p]
    /\ last_req'[p].op = "assoc"
    /\ last_req'[p].kind \in Range(EdgeTypes)

\* the step is a request of p about a node: the list of the existing nodes or a create
NodeRequest(p) ==
    /\ pc'[p] # pc[p]
    /\ last_req'[p].kind = "workflow_nodes"

EdgeAt(p) == EdgeList(cfg.workflow_job_templates[pc[p].i])[pc[p].e]

\* p is at an edge one of whose ends pass 1 did not record
AtUnresolvedEdge(p) ==
    /\ InEdgePass(p)
    /\ \/ DictGet(loc[p].node_id_map, EdgeAt(p).source) = 0
       \/ DictGet(loc[p].node_id_map, EdgeAt(p).target) = 0

\* both ends of a declared edge are declared nodes on declared job templates
Resolvable(c, wf, edge) ==
    \A ident \in {edge.source, edge.target} :
        \E nd \in DeclaredNodes(wf, ident) :
            \E n \in 1..Len(c.job_templates) : c.job_templates[n].name = nd.job_template

\* a declared edge is linked on the remote between nodes of its two ends
Linked(rem, links, wf, edge) ==
    \E sn \in DeclaredNodes(wf, edge.source), tn \in DeclaredNodes(wf, edge.target) :
        \E src \in NodeIdsOf(rem, wf, sn), tgt \in NodeIdsOf(rem, wf, tn) :
            <<edge.edge_type, src, tgt>> \in links

\* C23: an edge whose source or target is not in node_id_map (an undeclared
\* identifier, or a node skipped because its job template is unknown) is passed
\* over with no request, no error and no change to the remote, and the run goes
\* on with the next edge, the next workflow or what follows the workflows; a run
\* that ends with every request answered successfully leaves every edge with two
\* resolvable ends linked, in every declared workflow.
C23_UnresolvedEdgeSkipped ==
    [][\A p \in procs :
          /\ (AtUnresolvedEdge(p) /\ pc'[p] # pc[p]) =>
                /\ last_req'[p] = NoReq
                /\ errs' = errs
                /\ remote' = remote /\ assoc' = assoc /\ nextId' = nextId
                /\ pc'[p] = AfterEdge(cfg, cache[p], pc[p])
                /\ pc'[p].step = "exit" => exit_code'[p] = 0
          /\ (hist' = Append(hist, Populated) /\ errs' = << >>) =>
                \A w \in 1..Len(cfg.workflow_job_templates) :
                    LET wf == cfg.workflow_job_templates[w]
                    IN \A e \in 1..Len(EdgeList(wf)) :
                           Resolvable(cfg, wf, EdgeList(wf)[e]) =>
                               Linked(remote', assoc', wf, EdgeList(wf)[e])]_vars

\* a run over W1, whose edges to N9 and from and to N3 are unresolved, and W2 has
\* ended: the edge declared after N1 -> N9 and the edge of W2 are linked
C23_Witness ==
    /\ cfg = CfgScoped
    /\ hist = <<Populated>>
    /\ errs = << >>
    /\ LET w1 == cfg.workflow_job_templates[1]
           w2 == cfg.workflow_job_templates[2]
       IN /\ ~Resolvable(cfg, w1, EdgeList(w1)[2])
          /\ Linked(remote, assoc, w1, EdgeList(w1)[3])
          /\ ~Resolvable(cfg, w1, EdgeList(w1)[5])
          /\ Linked(remote, assoc, w2, EdgeList(w2)[1])

\* ------------------------------------------------------------ the summary
\* C24: a run that passed the connectivity check has printed its final summary
\* when it has ended, also when a request for a single resource failed on the way.
C24_SummaryAlways ==
    /\ \A p \in procs :
          (pc[p].step = "exit" /\ last_req[p].op # "ping") => summary[p]
    /\ (cleaner.pos.step = "exit" /\ cleaner.req.op # "ping") => cleaner.summary

\* ------------------------------------------------------------- pagination
\* C25: a listing covers every page: when a run of the Collector has ended with
\* every request answered, every workflow of the controller was counted and
\* traversed, and so was the job template of every node of every workflow,
\* whatever page of the list they are on.
C25_ListsExhaustive ==
    EndedWithoutFailure =>
        /\ DictGet(col.stats, "workflow_job_templates") =
               Cardinality(remote["workflow_job_templates"])
        /\ col.downloaded["workflows"] = {w.id : w \in remote["workflow_job_templates"]}
        /\ \A n \in remote["workflow_nodes"] :
               Contains(n.related, "job_templates") =>
                   n.unified_job_template \in col.downloaded["job_templates"]

\* the same on a controller whose lists fit one page
C25_OnePage ==
    (/\ Cardinality(remote["workflow_job_templates"]) <= PageSize
     /\ \A w \in remote["workflow_job_templates"] :
           Cardinality({n \in remote["workflow_nodes"] : n.workflow_job_template = w.id})
              <= PageSize)
    => C25_ListsExhaustive

\* ------------------------------------------------------- two instances
\* two objects of a kind with one ResourceKey
Duplicates(rem, kind) ==
    {pair \in rem[kind] \X rem[kind] :
        /\ pair[1].id < pair[2].id
        /\ NameOf(kind, pair[1]) = NameOf(kind, pair[2])
        /\ \A f \in ScopeFields(kind) : pair[1][f] = pair[2][f]}

\* C26: the remote holds two resources of a kind with one ResourceKey only when
\* two instances of the Provisioner are at work on the target and both have
\* started; with a single instance, run once or again, no such state is reached.
\* (That two instances do reach it is the witness: both look the key up, both
\* find nothing, both create.)
C26_DuplicatesNeedTwoInstances ==
    (\E kind \in Kinds : Duplicates(remote, kind) # {}) =>
        /\ procs = {1, 2}
        /\ \A p \in procs : pc[p].step # "idle"

\* two instances have run to the end with exit code 0, every request answered
\* successfully, and the remote holds two organizations Org-A
C26_Witness ==
    /\ procs = {1, 2}
    /\ hist = <<Populated, Populated>>
    /\ errs = << >>
    /\ \A p \in procs : pc[p].step = "exit" /\ exit_code[p] = 0
    /\ Duplicates(remote, "organizations") # {}

\* one instance, whatever it is given: no two objects of a kind that the upsert
\* creates share a ResourceKey
C26_SingleInstance ==
    \A kind \in Kinds \ {"workflow_nodes"} : Duplicates(remote, kind) = {}

\* ------------------------------------------------------------------ resume
Killed == [prog |-> "populate", rc |-> -15]

\* after the run that snap[2] is left from and the target set up again, a run was
\* terminated and the next one ran to the end, every request answered successfully
Resumed ==
    /\ hist = <<Populated, Killed, Populated>>
    /\ errs = << >>

\* C27: when a run is terminated after any number of completed requests and the
\* Provisioner is then run again from the start to the end, the remote holds no
\* two resources with one ResourceKey and holds the same resources, memberships,
\* credential links, grants, nodes and edges as one uninterrupted run on the same
\* target left.
C27_SafeResume ==
    Resumed =>
        /\ NoDuplicateKeys(snap[4].remote)
        /\ snap[4].remote = snap[2].remote
        /\ snap[4].assoc = snap[2].assoc

\* the same for a declaration whose node lists fit one page
C27_OnePage == cfg = CfgScoped => C27_SafeResume

\* -------------------------------------------------------------- round trip
Cleaned == [prog |-> "cleanup", rc |-> 0]

\* the names the declaration holds for a kind
DeclaredNames(c, kind) ==
    {IF kind = "users" THEN c[kind][n].username ELSE c[kind][n].name :
        n \in 1..Len(c[kind])}

\* the objects of a kind in one state of the remote and not, by id, in another
Missing(kind, from, in) ==
    {o \in from.remote[kind] : \A x \in in.remote[kind] : x.id # o.id}

\* the Provisioner ran from the target snap[1] to the end, then the declared-name
\* Decommissioner did, and every request of the two runs was answered successfully
RoundTrip(h, e) == h = <<Populated, Cleaned>> /\ e = << >>

\* what the Provisioner created is gone
CreatedRemoved(s) ==
    \A kind \in Kinds : \A o \in Missing(kind, s[2], s[1]) : o \in Missing(kind, s[2], s[3])

\* a resource of the target stays when its name is not declared for its kind;
\* a host, a group or a node stays when what it is nested in stays
UndeclaredKept(c, s) ==
    \A kind \in Kinds : \A o \in Missing(kind, s[1], s[3]) :
        \/ kind \in Range(CleanOrder) /\ NameOf(kind, o) \in DeclaredNames(c, kind)
        \/ kind \in {"hosts", "groups"} /\
               \E q \in Missing("inventories", s[1], s[3]) : q.id = o.inventory
        \/ kind = "workflow_nodes" /\
               \E q \in Missing("workflow_job_templates", s[1], s[3]) :
                   q.id = o.workflow_job_template

\* the step is a delete request of the Decommissioner
DeleteRequest ==
    /\ cleaner.pos.step \in Range(CleanOrder) /\ cleaner.pos.ph = "delete"
    /\ cleaner' # cleaner

InScope(rem, kind, name, field, parent_kind, parent_name) ==
    \E o \in rem[kind] :
        /\ NameOf(kind, o) = name
        /\ o[field] \in RemoteIds(rem, parent_kind, parent_name)

\* one run of the Provisioner on an empty target, from the start to the end with
\* every request answered successfully
ProvisionedEmpty ==
    /\ hist # << >> /\ hist[1] = Populated
    /\ errs = << >>
    /\ snap[1].remote = TargetEmpty.remote

\* C30: after a successful run on an empty target every declared team is on the
\* remote in its declared organization and every declared host and group in its
\* declared inventory; two teams declared with one name in two organizations are
\* two remote teams and their cache keys map to different ids.
C30_ScopedKeysHonoured ==
    ProvisionedEmpty =>
        /\ \A n \in 1..Len(cfg.teams) :
               InScope(snap[2].remote, "teams", cfg.teams[n].name, "organization",
                       "organizations", cfg.teams[n].organization)
        /\ \A n \in 1..Len(cfg.inventories) :
               LET inv == cfg.inventories[n]
               IN /\ \A h \in Range(Get(inv, "hosts", << >>)) :
                         InScope(snap[2].remote, "hosts", h.name, "inventory",
                                 "inventories", inv.name)
                  /\ \A g \in Range(Get(inv, "groups", << >>)) :
                         InScope(snap[2].remote, "groups", g.name, "inventory",
                                 "inventories", inv.name)
        /\ \A a, b \in 1..Len(cfg.teams) :
               (Len(hist) = 1 /\ cfg.teams[a].organization # cfg.teams[b].organization) =>
                   DictGet(cache[1].team_ids,
                           CacheKey(cfg.teams[a].organization, cfg.teams[a].name))
                   # DictGet(cache[1].team_ids,
                             CacheKey(cfg.teams[b].organization, cfg.teams[b].name))

\* the same for a declaration in which no two teams have one name
C30_DistinctNames ==
    (\A a, b \in 1..Len(cfg.teams) : cfg.teams[a].name = cfg.teams[b].name => a = b)
    => C30_ScopedKeysHonoured

\* ---------------------------------------------------------- cache soundness
\* the kind whose ids a dict of the Reference Cache holds
CacheKind(field) ==
    CASE field = "org_ids" -> "organizations"
      [] field = "team_ids" -> "teams"
      [] field = "user_ids" -> "users"
      [] field = "cred_type_ids" -> "credential_types"
      [] field = "cred_ids" -> "credentials"
      [] field = "project_ids" -> "projects"
      [] field = "inventory_ids" -> "inventories"
      [] field = "host_ids" -> "hosts"
      [] field = "group_ids" -> "groups"
      [] field = "jt_ids" -> "job_templates"
      [] field = "wfjt_ids" -> "workflow_job_templates"

\* a remote object of a kind is the resource a cache key names: it has the name
\* of the key and, for a key with a scope, its parent has the name of the scope
KeyMatches(c, rem, kind, key, o) ==
    CASE kind = "teams" ->
             \E n \in 1..Len(c.teams) :
                 /\ key = CacheKey(c.teams[n].organization, c.teams[n].name)
                 /\ o.name = c.teams[n].name
                 /\ o.organization \in
                        RemoteIds(rem, "organizations", c.teams[n].organization)
      [] kind \in {"hosts", "groups"} ->
             \E n \in 1..Len(c.inventories) :
                 \E x \in Range(Get(c.inventories[n], kind, << >>)) :
                     /\ key = CacheKey(c.inventories[n].name, x.name)
                     /\ o.name = x.name
                     /\ o.inventory \in RemoteIds(rem, "inventories", c.inventories[n].name)
      [] OTHER -> NameOf(kind, o) = key

\* every entry of the Reference Cache of p holds the id of a remote resource of
\* its kind that its key names
CacheSound(p) ==
    \A field \in DOMAIN cache[p] : \A n \in 1..Len(cache[p][field]) :
        \E o \in remote[CacheKind(field)] :
            /\ o.id = cache[p][field][n].v
            /\ KeyMatches(cfg, remote, CacheKind(field), cache[p][field][n].k, o)

InRun(p) == pc[p].step \notin {"idle", "exit"}

\* the entries of the cache of p after the step that were not in it before
NewEntries(p) ==
    UNION {{<<field, cache'[p][field][n]>> : n \in 1..Len(cache'[p][field])}
           \ {<<field, cache[p][field][n]>> : n \in 1..Len(cache[p][field])} :
           field \in DOMAIN cache[p]}

\* a step that keeps the cache sound and writes to it only what a successful
\* lookup or create returned
CacheStep ==
    \A p \in procs :
        /\ InRun(p)' => CacheSound(p)'
        /\ InRun(p) =>
              /\ \A e \in NewEntries(p) :
                     /\ last_req'[p].op \in {"find", "create"}
                     /\ last_req'[p].status \in {200, 201}
                     /\ last_req'[p].kind = CacheKind(e[1])
                     /\ last_req'[p].id = e[2].v
              /\ IsError(last_req'[p]) => cache'[p] = cache[p]

\* C29: in every state of a run each entry of the Reference Cache holds the id
\* of a remote resource of its kind that matches its key; an entry is written
\* only in the step in which a lookup or a create of that kind was answered
\* successfully, with the id of the answer; a step whose request failed writes
\* no entry.
C29_CacheSound == [][CacheStep]_vars

\* the same for a declaration in which no two teams have one name
C29_DistinctNames ==
    [][(\A a, b \in 1..Len(cfg.teams) : cfg.teams[a].name = cfg.teams[b].name => a = b)
       => CacheStep]_vars

\* ------------------------------------------------------- role assignments
AtRole(p, ph) == pc[p].step = "role_assignments" /\ pc[p].ph = ph

\* the ids the Reference Cache of p gives for the assignment p is at
RoleObjectId(p) ==
    DictGet(ObjectCache(cache[p], cfg.role_assignments[pc[p].i].object_type),
            cfg.role_assignments[pc[p].i].object_name)

RoleTeamId(p) == TeamIdByName(cache[p].team_ids, cfg.role_assignments[pc[p].i].team)

\* the step is a grant request of p
GrantRequest(p) ==
    /\ pc'[p] # pc[p]
    /\ last_req'[p].op = "assoc" /\ last_req'[p].kind = "role_teams"

\* C31: a grant is requested only for an assignment whose object id and team id
\* the Reference Cache holds, right after the detail of that object was fetched
\* for this assignment and showed the named role level, and it grants the role
\* id of that level to that team; an assignment whose object or team is not
\* cached is passed over with no request, one whose object lacks the role level
\* is passed over after the detail, and in both cases the run goes on with the
\* next assignment.
C31_RoleProtocol ==
    [][\A p \in procs :
          /\ GrantRequest(p) =>
                LET ra == cfg.role_assignments[pc[p].i]
                IN /\ AtRole(p, "grant")
                   /\ RoleObjectId(p) # 0 /\ RoleTeamId(p) # 0
                   /\ last_req[p] = Req("detail", ra.object_type, 200, RoleObjectId(p), "")
                   /\ ra.role_field \in ObjectRoles(ra.object_type)
                   /\ assoc' \ assoc \subseteq
                          {<<"role_teams",
                             RoleId(ra.object_type, RoleObjectId(p), ra.role_field),
                             RoleTeamId(p)>>}
          /\ (AtRole(p, "detail") /\ pc'[p] # pc[p]
                 /\ (RoleObjectId(p) = 0 \/ RoleTeamId(p) = 0)) =>
                /\ last_req'[p] = NoReq /\ errs' = errs
                /\ assoc' = assoc /\ remote' = remote
                /\ pc'[p] = NextInstance(cfg, cache[p], pc[p])
          /\ (AtRole(p, "detail") /\ pc'[p] # pc[p] /\ last_req'[p].status = 200
                 /\ cfg.role_assignments[pc[p].i].role_field
                        \notin ObjectRoles(cfg.role_assignments[pc[p].i].object_type)) =>
                /\ assoc' = assoc /\ remote' = remote
                /\ pc'[p] = NextInstance(cfg, cache[p], pc[p])]_vars

\* the run has passed over an assignment with no object, one with no team and one
\* with no such role level, and has granted the assignment after them
C31_Witness ==
    /\ cfg = CfgScoped
    /\ hist = <<Populated>> /\ errs = << >>
    /\ last_req[1] = Req("assoc", "role_teams", 204, 0, "")
    /\ \E l \in assoc : l[1] = "role_teams" /\ l[2] = RoleId("job_templates", 1, "execute_role")
    /\ ~\E l \in assoc : l[1] = "role_teams" /\ l[2] = RoleId("job_templates", 1, "use_role")

\* ------------------------------------------------------ errors on association
\* the relations whose association request has a try around it
QuietRelations == {"org_users", "team_users", "jt_credentials", "role_teams"}
                  \cup Range(EdgeTypes)

\* C32: of the answers to an association request only the conflict ("already a
\* member", "already linked") is taken for success; an unexpected error of the
\* remote on the same request is kept as a failure of the run and does not pass
\* for a successful association.
C32_OnlyConflictsPass ==
    \A p \in procs :
        (last_req[p].op = "assoc" /\ last_req[p].kind \in QuietRelations) =>
            /\ last_req[p].status = 409 => last_req[p].exc = ""
            /\ last_req[p].status >= 500 => last_req[p].exc # ""


\* ------------------------------------------------------------------- C33
\* a request of the listing of the kind the protected-name cleaner is at has
\* been answered with an HTTP error
ListFailed ==
    /\ aap.pos.step = "list"
    /\ aap' # aap
    /\ aap'.req.op = "list" /\ aap'.req.status # 200

\* the kinds whose listing has failed, by the errors of the run
FailedKinds == {errs[n].kind : n \in {j \in 1..Len(errs) : errs[j].op = "list"}}

\* C33: when the listing of a kind fails with an HTTP error in the
\* protected-name Decommissioner, no object of that kind is deleted, no counter
\* changes for that kind, and every later kind is still listed and processed:
\* the failed request leaves remote, deleted, skipped, failed and the delete
\* requests as they were and takes the loop to the listing of the next kind
\* (after the last kind, to a run that ends with 0 and the summary); a first
\* run makes no delete request for a kind whose listing has failed; and at
\* the end of a first run whose only errors are failed listings, the kinds
\* whose listing failed are as they were before the run and the others hold
\* protected objects only.
C33_KindIsolation ==
    [][/\ ListFailed =>
             /\ remote' = remote
             /\ aap'.deleted = aap.deleted /\ aap'.skipped = aap.skipped
             /\ aap'.failed = aap.failed /\ aap'.asked = aap.asked
             /\ aap'.pos = IF aap.pos.k < Len(AapOrder)
                            THEN APos("list", aap.pos.k + 1, 0)
                            ELSE APos("exit", 0, 0)
             /\ aap'.pos.step = "exit" => aap'.exit_code = 0 /\ aap'.summary
       /\ \A a \in aap'.asked \ aap.asked :
             /\ aap.pos.step = "objects"
             /\ a[1] = AapOrder[aap.pos.k].endpoint
             /\ runs = 1 => a[1] \notin FailedKinds
       /\ ( /\ aap'.pos.step = "exit" /\ runs' = 1
            /\ \A n \in 1..Len(errs') : errs'[n].op = "list" ) =>
             \A kind \in AapKinds :
                IF kind \in FailedKinds'
                THEN remote'[kind] = snap[1].remote[kind]
                ELSE \A o \in remote'[kind] : IsProtected(kind, o)
      ]_vars

\* the listing of the inventories failed on the installed controller: both
\* inventories are still there, and the four kinds after them were cleaned
C33_Witness ==
    /\ aap.pos.step = "exit" /\ aap.exit_code = 0 /\ runs = 1
    /\ errs = <<Req("list", "inventories", 500, 0, "")>>
    /\ remote["inventories"] = AapInstalled.remote["inventories"]
    /\ Cardinality(remote["inventories"]) = 2
    /\ \A kind \in AapKinds \ {"inventories"} :
          \A o \in remote[kind] : IsProtected(kind, o)
    /\ aap.deleted = 6 /\ aap.skipped = 5 /\ aap.failed = 0


\* ------------------------------------------------------------------- C34
\* p makes a lookup or a create request for a job template
JobTemplateRequest(p) ==
    /\ pc'[p] # pc[p]
    /\ last_req'[p].kind = "job_templates"
    /\ last_req'[p].op \in {"find", "create"}

\* C34: no job-template lookup or create request is made before the waiter
\* has returned in this run; the waiter starts with exactly the ids of the
\* project cache as its tracked set, those of projects that already existed
\* included; and it returns only when the tracked set is empty, every cached
\* project id then having a status outside the in-progress set, or when the
\* clock has reached the deadline.
C34_JobTemplatesAfterSync ==
    [][\A p \in procs :
          /\ JobTemplateRequest(p) =>
                /\ wait_outcome[p] \in {"completed", "timed_out"}
                /\ pc[p].step \notin {"wait", "projects"}
                /\ <<"projects", 1>> \in attempted[p]
          /\ (pc[p].step = "wait" /\ pc[p].ph = "enter" /\ pc'[p] # pc[p]) =>
                /\ pc'[p].step = "wait"
                /\ loc'[p].pending = DictValues(cache[p].project_ids)
                /\ pc'[p].ph = "poll" => loc'[p].todo = DictValues(cache[p].project_ids)
                /\ wait_outcome'[p] = "none"
          /\ (pc[p].step = "wait" /\ pc[p].ph = "return" /\ pc'[p] # pc[p]) =>
                /\ \/ /\ loc[p].pending = {}
                      /\ wait_outcome'[p] = "completed"
                      /\ \A pid \in DictValues(cache[p].project_ids) :
                            proj_status[pid] \notin InProgress
                   \/ /\ loc[p].pending # {}
                      /\ wait_outcome'[p] = "timed_out"
                      /\ now >= loc[p].deadline
          /\ (pc[p].step = "wait" /\ pc'[p].step # "wait") =>
                pc[p].ph = "return" \/ pc'[p].step = "exit"
      ]_vars

\* on the target that holds project P1 already, whose sync was under way, the
\* waiter has tracked P1 to the end of its sync and the first job-template
\* lookup has been made
C34_Witness ==
    /\ cfg = CfgBasic
    /\ runs = 1 /\ snap[1].remote["projects"] # {}
    /\ \E o \in snap[1].remote["projects"] :
          /\ DictValues(cache[1].project_ids) = {o.id}
          /\ proj_status[o.id] = "successful"
    /\ wait_outcome[1] = "completed"
    /\ last_req[1].kind = "job_templates" /\ last_req[1].op = "find"


\* ------------------------------------------------------------------- C35
\* Deleted + Skipped + Failed of a cleaner
Classified(cl) == cl.deleted + cl.skipped + cl.failed

\* exactly one of the three counts goes up by one, the others stay
OneOutcome(old, new) ==
    /\ Classified(new) = Classified(old) + 1
    /\ new.deleted >= old.deleted /\ new.skipped >= old.skipped
    /\ new.failed >= old.failed

\* the declared-name cleaner is done with a name: the lookup has found nothing,
\* or the delete request for what it found has been answered
NameFinished ==
    /\ cleaner.pos.step \in Range(CleanOrder) /\ cleaner' # cleaner
    /\ \/ /\ cleaner.pos.ph = "find"
          /\ cleaner'.req.op = "find" /\ cleaner'.req.status = 200
          /\ cleaner'.req.id = 0
       \/ cleaner.pos.ph = "delete" /\ cleaner'.req.op = "delete"

\* the protected-name cleaner is done with an object of a list: it has skipped
\* it, or the delete request for it has been answered
ObjectFinished == aap.pos.step = "objects" /\ aap' # aap

\* the declared names the loops of the declared-name cleaner have gone past
RECURSIVE NamesBefore(_, _, _)
NamesBefore(c, n, pos) ==
    IF n = 0 THEN 0
    ELSE IF CleanOrder[n] = pos.step THEN NamesBefore(c, n - 1, pos) + pos.i - 1
    ELSE IF n < CleanIndex(pos.step)
         THEN NamesBefore(c, n - 1, pos) + Len(CleanNames(c, CleanOrder[n]))
         ELSE NamesBefore(c, n - 1, pos)

\* C35: in every state of a Decommissioner run Deleted + Skipped + Failed is
\* the number of declared names (of listed objects) the run is done with: the
\* step that is done with one adds one to exactly one of the three counts, no
\* other step of a run changes a count, and while the declared-name cleaner
\* is in its loops the sum is the number of names the loops have gone past.
C35_CountersClassify ==
    [][/\ IF NameFinished THEN OneOutcome(cleaner, cleaner')
          ELSE cleaner'.pos.step = "idle" \/ cleaner.pos.step \in {"idle", "exit"}
               \/ /\ cleaner'.deleted = cleaner.deleted
                  /\ cleaner'.skipped = cleaner.skipped
                  /\ cleaner'.failed = cleaner.failed
       /\ cleaner'.pos.step \in Range(CleanOrder) =>
             Classified(cleaner') = NamesBefore(cfg, Len(CleanOrder), cleaner'.pos)
       /\ IF ObjectFinished THEN OneOutcome(aap, aap')
          ELSE aap'.pos.step = "idle" \/ aap.pos.step \in {"idle", "exit"}
               \/ /\ aap'.deleted = aap.deleted /\ aap'.skipped = aap.skipped
                  /\ aap'.failed = aap.failed
      ]_vars

\* the same of the protected-name cleaner alone, with the count of a run that
\* has listed every kind: the objects of the controller it started on
C35_ListedClassified ==
    [][/\ IF ObjectFinished THEN OneOutcome(aap, aap')
          ELSE aap'.pos.step = "idle" \/ aap.pos.step \in {"idle", "exit"}
               \/ /\ aap'.deleted = aap.deleted /\ aap'.skipped = aap.skipped
                  /\ aap'.failed = aap.failed
       /\ ( /\ aap'.pos.step = "exit" /\ runs' = 1 /\ aap'.req.op # "ping"
            /\ \A n \in 1..Len(errs') : errs'[n].op # "list" ) =>
             Classified(aap') = Cardinality(UNION {{<<kind, o.id>> : o \in snap[1].remote[kind]} :
                                                   kind \in AapKinds})
      ]_vars


\* ------------------------------------------------------------------- C36
\* C36: within one workflow two declared nodes with different identifiers
\* have different remote node ids in node_id_map, also when both run the
\* same job template.
C36_NodeIdsDistinct ==
    \A p \in procs :
        \A a, b \in 1..Len(loc[p].node_id_map) :
            loc[p].node_id_map[a].k # loc[p].node_id_map[b].k
                => loc[p].node_id_map[a].v # loc[p].node_id_map[b].v

\* an edge links a remote node to itself only in a workflow that declares an
\* edge from a node to itself
C36_NoSelfLoops ==
    \A l \in assoc :
        (l[1] \in Range(EdgeTypes) /\ l[2] = l[3]) =>
            \E nd \in remote["workflow_nodes"] : \E wf \in remote["workflow_job_templates"] :
                /\ nd.id = l[2] /\ wf.id = nd.workflow_job_template
                /\ \E w \in 1..Len(cfg.workflow_job_templates) :
                      /\ cfg.workflow_job_templates[w].name = wf.name
                      /\ \E n \in 1..Len(cfg.workflow_job_templates[w].nodes) :
                            LET d == cfg.workflow_job_templates[w].nodes[n]
                            IN d.identifier \in Range(d.success_nodes)
                                  \cup Range(d.failure_nodes) \cup Range(d.always_nodes)


\* ------------------------------------------------------------------- C37
\* the detail of this resource was fetched and its document written in the run
\* with this state
Persisted(cl, key, id) ==
    /\ TimesIn(cl.log, "fetch", key, id, "ok") >= 1
    /\ TimesIn(cl.log, "write", key, id, "ok") = 1
    /\ \E f \in cl.files : f.dir = key /\ f.id = id

\* C37: in every state of a Collector run an id is in the VisitedSet of a kind
\* only if the detail of that resource was fetched and its document written
\* with success in this run; the step in which the fetch or the write of a
\* resource fails does not put it in the VisitedSet; and whenever the traversal
\* comes to a resource that is not in the VisitedSet, by whatever path, it
\* requests its detail.
C37_VisitedIsPersisted ==
    [][/\ \A key \in ColKeys : \A id \in col'.downloaded[key] : Persisted(col', key, id)
       /\ \A e \in NewEvents :
             (e.res # "ok" /\ e.id # 0) => e.id \notin col'.downloaded[e.key]
       /\ (col.pos = "walk" /\ col' # col
              /\ Head(col.todo).id \notin col.downloaded[Head(col.todo).key]) =>
             \E e \in NewEvents :
                 e.op = "fetch" /\ e.key = Head(col.todo).key /\ e.id = Head(col.todo).id
      ]_vars

\* the write of the document of the credential two job templates use failed
\* when the first of them led to it; the second led to it again, it was
\* fetched a second time and written, and is in the VisitedSet
C37_Witness ==
    /\ col.pos = "exit"
    /\ Times("write", "credentials", 1, "error") = 1
    /\ Times("fetch", "credentials", 1, "ok") = 2
    /\ 1 \in col.downloaded["credentials"]
    /\ Persisted(col, "credentials", 1)


\* ------------------------------------------------------------------- C38
\* the ids of the job templates the workflow nodes of the remote run: a node
\* whose unified job template is of another kind refers to no job template
ReferencedJobTemplates ==
    {n.unified_job_template :
        n \in {x \in remote["workflow_nodes"] :
                 /\ x.unified_job_template # 0
                 /\ x.related = Url("job_templates", x.unified_job_template)}}

\* C38: every id the Collector requests a job-template detail for is the id
\* of a job template that a workflow node has as its unified job template; a
\* node that runs a template of another kind causes no job-template request.
C38_OnlyReferencedJobTemplates ==
    \A n \in 1..Len(col.log) :
        (col.log[n].op = "fetch" /\ col.log[n].key = "job_templates")
            => col.log[n].id \in ReferencedJobTemplates


\* ------------------------------------------------------------------- C39
\* the kinds of the resources the workflows depend on
DependencyKeys == ColKeys \ {"workflows"}

\* C39: at the end of a Collector run the count reported for each dependency
\* kind is the number of resources of that kind in the VisitedSet, also when
\* fetches or writes have failed in the run.
C39_StatsMatchVisited ==
    col.pos = "exit" =>
        \A key \in DependencyKeys :
            DictGet(col.stats, Endpoint(key)) = Cardinality(col.downloaded[key])

\* the same for the runs in which no write has failed
C39_WritesSucceeded ==
    (col.pos = "exit" /\ \A n \in 1..Len(col.log) :
                            col.log[n].op = "write" => col.log[n].res = "ok") =>
        \A key \in DependencyKeys :
            DictGet(col.stats, Endpoint(key)) = Cardinality(col.downloaded[key])

====
